---- MODULE Spec2Model ----
(***************************************************************************)
(* OptiFlow forecast-to-decision pipeline (scripts/ml).                    *)
(*                                                                         *)
(* Quantities (stock, demand) are floats in the source; they are integers  *)
(* here, in units.  A date is the number of days after the last training   *)
(* date.  A trained model is the value [product, points] of the series it  *)
(* was fitted on; the forecasting library itself is a black box whose      *)
(* per-day output is an input of the actions.  Python's None is NoModel /  *)
(* NoSnapshot / 0 for a date.                                              *)
(*                                                                         *)
(* A call is one step; the value it returns stays in ret until the caller  *)
(* has read it (ReturnToCaller), and no call starts before that: the       *)
(* pipeline is single-threaded and synchronous.                            *)
(*                                                                         *)
(* The specifications share the variables:                                 *)
(*   Spec        the forecast generator, the tables forecasts and alerts   *)
(*   SpecBatch   the same with generate_all_forecasts, on fewer inputs     *)
(*   SpecModels  the model lifecycle manager (train, load)                 *)
(*   SpecPure    the pure business functions applied to bounded inputs     *)
(*   SpecFacade, SpecCache, SpecCore                                       *)
(*               the facade reads over the stores and the summary cache    *)
(*   SpecBoundary                                                          *)
(*               the public operations under failing calls: their effects  *)
(*               on the stores and the control flow of their try blocks    *)
(***************************************************************************)
EXTENDS Integers, Sequences, FiniteSets

\* ------------------------------------------------------------------ bounds
\* Longest forecast, largest per-day demand and largest stock that SpecPure
\* enumerates exhaustively.
MaxLen == 3
MaxDemand == 2
MaxStock == 5
\* Largest day count handed to the severity function in SpecPure.
MaxDays == 32
\* Rows the alerts table may hold before the write actions are disabled.
MaxAlerts == 3
\* Longest prepared daily series handed to training in SpecModels.
MaxPoints == 11
\* Longest alerts table over the full range of severities in SpecPure.
MaxAlertRows == 3
\* Longest prepared daily series handed to the evaluation in SpecPure.
MaxEvalPoints == 35
\* Longest test segment whose metrics SpecPure computes.
MaxTestPoints == 4
\* Most sales rows handed to the series preparation in SpecPure.
MaxRecords == 3

\* ------------------------------------------------------- program constants
DefaultForecastDays == 30
LeadTimeDays == 7
SafetyStockDays == 5
MinimumOrderQty == 1
MinTrainPoints == 10
\* evaluate_single_product: minimum series, train and test lengths, and the
\* default of test_days.
MinEvalPoints == 30
MinEvalTrain == 20
MinEvalTest == 3
DefaultTestDays == 14
\* get_dashboard_data: the number of top risks shown.
TopRisksShown == 5

Products == {1, 2}
NoModel == [product |-> 0, points |-> 0]
\* load_stock_levels(latest_only=True): an empty frame, or one row.
NoSnapshot == [empty |-> TRUE, quantity_available |-> 0]
Snapshot(q) == [empty |-> FALSE, quantity_available |-> q]
NoMetrics == [validation |-> "none", test_points |-> 0]

\* ------------------------------------------------------------- arithmetic
Max(a, b) == IF a >= b THEN a ELSE b

Clip(x) == Max(0, x)

RECURSIVE SumField(_, _, _)
\* Sum of field f over the first k rows of fc.
SumField(fc, f, k) ==
  IF k = 0 THEN 0 ELSE SumField(fc, f, k - 1) + fc[k][f]

\* ------------------------------------------- calculate_days_until_stockout
RECURSIVE SimulateStrict(_, _, _)
\* A loop that detects the stock-out only once the stock is below zero.
SimulateStrict(daily_forecast, remaining_stock, day) ==
  IF day > Len(daily_forecast)
  THEN [days_count |-> Len(daily_forecast), stockout_date |-> 0]
  ELSE LET left == remaining_stock - Max(0, daily_forecast[day].yhat)
       IN IF left < 0
          THEN [days_count |-> day, stockout_date |-> daily_forecast[day].ds]
          ELSE SimulateStrict(daily_forecast, left, day + 1)

RECURSIVE Simulate(_, _, _)
\* The day-by-day loop: day is the row about to be consumed.  Returns
\* [days_count, stockout_date]; stockout_date 0 is None.
Simulate(daily_forecast, remaining_stock, day) ==
  IF day > Len(daily_forecast)
  THEN [days_count |-> Len(daily_forecast), stockout_date |-> 0]
  ELSE LET left == remaining_stock - Max(0, daily_forecast[day].yhat)
       IN IF left <= 0
          THEN [days_count |-> day, stockout_date |-> daily_forecast[day].ds]
          ELSE Simulate(daily_forecast, left, day + 1)

HasBounds(daily_forecast) ==
  {"yhat_lower", "yhat_upper"} \subseteq DOMAIN daily_forecast[1]

\* ------------------------------------------------ double-precision quotient
\* The significand of a / b (a, b > 0) as a fraction in [1, 2): a and b
\* scaled by powers of two.
RECURSIVE Significand(_, _)
Significand(a, b) ==
  IF a < b THEN Significand(2 * a, b)
  ELSE IF a >= 2 * b THEN Significand(a, 2 * b)
  ELSE [num |-> a, den |-> b]

\* r * 2^k modulo b.
ShiftMod[r \in Nat, k \in Nat, b \in Nat] ==
  IF k = 0 THEN r % b
  ELSE IF k < 4 THEN ShiftMod[(2 * r) % b, k - 1, b]
  ELSE ShiftMod[(2 * ((2 * ((2 * ((2 * r) % b)) % b)) % b)) % b, k - 4, b]

\* The 52 fraction bits of a double.
FractionBits == 52

\* a / b rounded to a double: its significand sig and the rounding error
\* in units of the last place, ulps / sig.den (positive when rounded up).
\* A tie needs a 54-bit quotient and does not occur on small operands.
RoundedQuotient(a, b) ==
  LET sig == Significand(a, b)
      rest == ShiftMod[sig.num, FractionBits, sig.den]
  IN [sig |-> sig.num,
      ulps |-> IF 2 * rest > sig.den THEN sig.den - rest ELSE -rest]

\* fl(fl(a / b) / fl(5 a / b)) < fl(0.2).  The double 0.2 is
\* 1/5 + 0.4 ulp and the double below it 1/5 - 0.6 ulp, so the quotient
\* goes below when it is under 1/5 - 0.1 ulp, a relative 2^-56: with
\* relative errors e1 = 2^-52 x.ulps / x.sig and e2 of the two means,
\* (1 + e1) / (1 + e2) < 1 - 2^-56.
FifthRoundsBelow(a, b) ==
  LET x == RoundedQuotient(a, b)
      y == RoundedQuotient(5 * a, b)
      lhs == 16 * x.ulps * y.sig - 16 * y.ulps * x.sig
      rhs == -(x.sig * y.sig)
  IN IF lhs # rhs THEN lhs < rhs ELSE y.ulps < 0

\* The comparison avg_uncertainty / max(avg_demand, 1) < num / den in
\* doubles when the exact quotient is num / den, for the thresholds 1/5 and
\* 1/2 of the code: width / one and demand / one are the two means.  Under
\* the floor the quotient is the rounded mean width itself, which is the
\* double of the threshold; against 1/2 the mean demand is twice the mean
\* width, also after rounding, and the quotient is exactly 0.5.
RoundsBelow(width, demand, one, num, den) ==
  /\ num = 1 /\ den = 5
  /\ demand > one
  /\ width > 0
  /\ FifthRoundsBelow(width, one)

\* A ratio taken on the mean demand itself, without the floor of one unit.
RatioBelowNoFloor(daily_forecast, num, den, unit) ==
  LET n == Len(daily_forecast)
      width == SumField(daily_forecast, "yhat_upper", n)
               - SumField(daily_forecast, "yhat_lower", n)
      demand == SumField(daily_forecast, "yhat", n)
  IN den * width < num * demand

\* avg_uncertainty / max(avg_demand, 1) < num / den, with both means taken
\* over the n rows and the quantities counted in 1/unit of a unit of stock:
\* the inequality is multiplied by den * n * unit.
\* unit is a power of two, so that the quantities, their sums and their
\* differences are exact doubles and only the two means and the quotient
\* are rounded.  A quotient that is not num / den in exact arithmetic lies
\* on the side of the threshold where the exact one lies; one that is
\* exactly num / den is decided by the rounding.
RatioBelowIn(daily_forecast, num, den, unit) ==
  LET n == Len(daily_forecast)
      width == SumField(daily_forecast, "yhat_upper", n)
               - SumField(daily_forecast, "yhat_lower", n)
      demand == SumField(daily_forecast, "yhat", n)
  IN \/ den * width < num * Max(demand, n * unit)
     \/ /\ den * width = num * Max(demand, n * unit)
        /\ RoundsBelow(width, demand, n * unit, num, den)

\* Lines 336-349: the confidence label.
ConfidenceIn(daily_forecast, unit) ==
  IF HasBounds(daily_forecast)
  THEN IF RatioBelowIn(daily_forecast, 1, 5, unit) THEN "high"
       ELSE IF RatioBelowIn(daily_forecast, 1, 2, unit) THEN "medium"
       ELSE "low"
  ELSE "medium"

\* The same on whole units.
RatioBelow(daily_forecast, num, den) == RatioBelowIn(daily_forecast, num, den, 1)

Confidence(daily_forecast) == ConfidenceIn(daily_forecast, 1)

\* A report that gives 0 days when the horizon ends without a stock-out.
DaysNoStockoutAsZero(sim, daily_forecast) ==
  IF sim.stockout_date # 0 THEN sim.days_count ELSE 0

\* days_count if stockout_date else len(daily_forecast)
DaysReported(sim, daily_forecast) ==
  IF sim.stockout_date # 0 THEN sim.days_count ELSE Len(daily_forecast)

calculate_days_until_stockout(current_stock, daily_forecast) ==
  IF daily_forecast = <<>>
  THEN [days_until_stockout |-> 0, stockout_date |-> 0, confidence |-> "none"]
  ELSE LET sim == Simulate(daily_forecast, current_stock, 1)
       IN [days_until_stockout |-> DaysReported(sim, daily_forecast),
           stockout_date |-> sim.stockout_date,
           confidence |-> Confidence(daily_forecast)]

\* ---------------------------------------------- calculate_reorder_quantity
HeadRows(fc, k) == SubSeq(fc, 1, IF k < Len(fc) THEN k ELSE Len(fc))

\* int(a / b) on non-negative a: a rounding towards zero.
TruncDiv(a, b) == a \div b

\* np.ceil(a / b) on non-negative a, a / b an exact double.
CeilDiv(a, b) == (a + b - 1) \div b

RECURSIVE PowerOfTwo(_)
PowerOfTwo(k) == IF k = 0 THEN 1 ELSE 2 * PowerOfTwo(k - 1)

\* fl(qty / fl(a / b)) < qty * b / a when the exact quotient is an integer
\* k: the mean a / b is rounded first, by a relative 2^-52 ulps / sig, and
\* the quotient of qty by a mean rounded up goes to the double below k when
\* it passes the midpoint, half a spacing under k (the spacing under a
\* power of two is half the one above it).
QuotientRoundsBelow(qty, a, b) ==
  LET mean == RoundedQuotient(a, b)
      k == Significand((qty * b) \div a, 1)
      spacings == IF k.num = k.den THEN 4 ELSE 2
  IN /\ mean.ulps > 0
     /\ mean.sig * k.den < spacings * mean.ulps * k.num

\* calculate_reorder_quantity on point estimates counted in 1/unit of a
\* unit of stock, unit = 2^halvings (halvings = 1: halves), so that the sum
\* may be fractional while the estimates and their sums are exact doubles.
ReorderQuantity(forecast_df, lead_time_days, safety_stock_days, minimum_order_qty, halvings) ==
  IF forecast_df = <<>>
  THEN [recommended_quantity |-> minimum_order_qty, covers_days |-> 0]
  ELSE LET unit == PowerOfTwo(halvings)
           total_period == lead_time_days + safety_stock_days
           period_forecast == HeadRows(forecast_df, total_period)
           total_demand ==
             Max(0, SumField(period_forecast, "yhat", Len(period_forecast)))
           recommended_qty == Max(CeilDiv(total_demand, unit), minimum_order_qty)
           n == Len(forecast_df)
           all == SumField(forecast_df, "yhat", n)
           exact == (recommended_qty * n * unit) \div all
       IN [recommended_quantity |-> recommended_qty,
           \* int(qty / max(mean, 0.1)) with mean = all / (n * unit), in
           \* doubles: a quotient that is an integer in exact arithmetic
           \* may come out just under it.
           covers_days |-> IF 10 * all >= n * unit
                           THEN IF /\ exact > 0
                                   /\ (recommended_qty * n * unit) % all = 0
                                   /\ QuotientRoundsBelow(recommended_qty, all, n * unit)
                                THEN exact - 1
                                ELSE exact
                           ELSE recommended_qty * 10]

\* The same on whole units, as the rest of the pipeline counts them.
calculate_reorder_quantity(forecast_df, lead_time_days, safety_stock_days, minimum_order_qty) ==
  ReorderQuantity(forecast_df, lead_time_days, safety_stock_days, minimum_order_qty, 0)

\* ------------------------------------------------- _calculate_alert_level
AlertLevelByDays(days_until_stockout) ==
  IF days_until_stockout <= 7 THEN "CRITICAL"
  ELSE IF days_until_stockout <= 14 THEN "HIGH"
  ELSE IF days_until_stockout <= 30 THEN "MEDIUM"
  ELSE "LOW"

\* A severity that looks at the day count only.
AlertLevelIgnoringStock(stockout_info, current_stock) ==
  AlertLevelByDays(stockout_info.days_until_stockout)

calculate_alert_level(stockout_info, current_stock) ==
  IF current_stock <= 0
  THEN "CRITICAL"
  ELSE AlertLevelByDays(stockout_info.days_until_stockout)

\* ------------------------------------------------- _calculate_rupture_risk
\* A score whose thresholds are strict.
RuptureRiskBelow(days_until_stockout) ==
  IF days_until_stockout < 0 THEN 100
  ELSE IF days_until_stockout < 7 THEN 90
  ELSE IF days_until_stockout < 14 THEN 70
  ELSE IF days_until_stockout < 30 THEN 40
  ELSE 10

calculate_rupture_risk(days_until_stockout) ==
  IF days_until_stockout <= 0 THEN 100
  ELSE IF days_until_stockout <= 7 THEN 90
  ELSE IF days_until_stockout <= 14 THEN 70
  ELSE IF days_until_stockout <= 30 THEN 40
  ELSE 10

\* generate_product_forecast, step 3: the latest snapshot, 0 without one.
CurrentStock(stock_data) ==
  IF ~stock_data.empty THEN stock_data.quantity_available ELSE 0

\* =================================================================== state
VARIABLES
  modelFiles,     \* models_dir: product -> pickled model, NoModel without a file
  models,         \* OptiFlowPredictor.models, the in-memory map
  model_metrics,  \* OptiFlowPredictor.model_metrics; NoMetrics without an entry
  trained,        \* history: product -> model of its last successful training
  forecasts,      \* table forecasts, rows in insertion order
  alerts,         \* table alerts, rows in insertion order (created_at)
  batch,          \* generate_all_forecasts in progress: its loop state
  cache,          \* OptiFlowEngine._cache: its performance_summary entry
  now,            \* datetime.now(), in seconds
  ret             \* the value the last call returned, with what it was called on

vars == <<modelFiles, models, model_metrics, trained, forecasts, alerts, batch, cache, now, ret>>

NoBatch == [running |-> FALSE, products |-> <<>>, todo |-> <<>>, results |-> <<>>]
Idle == [op |-> "idle"]
\* _cache without the key performance_summary.
NoEntry == [timestamp |-> -1]

\* A call may start: no call's result is pending and no batch is running.
Ready == ret = Idle /\ ~batch.running

\* The caller has read the returned value.
ReturnToCaller ==
  /\ ret # Idle
  /\ ret' = Idle
  /\ UNCHANGED <<modelFiles, models, model_metrics, trained, forecasts, alerts, batch, cache, now>>

Init ==
  /\ modelFiles = [p \in Products |-> NoModel]
  /\ models = [p \in Products |-> NoModel]
  /\ model_metrics = [p \in Products |-> NoMetrics]
  /\ trained = [p \in Products |-> NoModel]
  /\ forecasts = <<>>
  /\ alerts = <<>>
  /\ batch = NoBatch
  /\ cache = NoEntry
  /\ now = 0
  /\ ret = Idle

\* ------------------------------------------------- model lifecycle manager
\* A split that is 80/20 whatever the length of the series.
SplitPointStraight(n) == (n * 8) \div 10

\* _validate_model, the chronological split point of a series of n points.
\* int(n * 0.7) and int(n * 0.8) truncate.
SplitPoint(n) ==
  IF n < 15 THEN Max(n - 5, (n * 7) \div 10) ELSE (n * 8) \div 10

\* _validate_model: the metrics attached to a training result.  A failure of
\* the throwaway fit or predict is caught inside and degrades the metrics.
validate_model(n, fault) ==
  LET test_points == n - SplitPoint(n)
  IN IF test_points < 2 THEN [validation |-> "insufficient_test_data", test_points |-> 0]
     ELSE IF fault = "validate" THEN [validation |-> "error", test_points |-> 0]
     ELSE [validation |-> "success", test_points |-> test_points]

\* A path that does not depend on the product.
ModelPathShared(product_id) == 1

\* The artifact path of a product: model_product_<id>.pkl.
ModelPath(product_id) == product_id

\* Lines 167-170: the file of the product is replaced by the new pickle.
WriteModel(files, product_id, model) ==
  [files EXCEPT ![ModelPath(product_id)] = model]

\* A training that has no minimum number of points.
TrainAlways(n, fault) == fault \in {"load_sales", "fit", "write"}

\* train_product_model on a product whose prepared daily series has n points
\* (0: no sales rows at all).  fault names the step that raises, if any.
TrainFails(n, fault) ==
  \/ fault \in {"load_sales", "fit", "write"}
  \/ n < MinTrainPoints

TrainError(n, fault) ==
  IF fault = "load_sales" THEN "exception"
  ELSE IF n = 0 THEN "no_sales_data"
  ELSE IF n < MinTrainPoints THEN "insufficient_data"
  ELSE "exception"

\* Lines 169-170: open(model_path, 'wb') empties the file of the product
\* before pickle.dump runs, so a dump that raises leaves a file that
\* load_model cannot read; such a file is NoModel, as load_model returns
\* None for it as for a missing one.
FilesAfterFailure(product_id, n, fault) ==
  IF fault = "write" /\ n >= MinTrainPoints
  THEN WriteModel(modelFiles, product_id, NoModel)
  ELSE modelFiles

\* The returned value next to what the call was made on.
Returned(call, result) ==
  [f \in DOMAIN call \cup DOMAIN result |->
     IF f \in DOMAIN result THEN result[f] ELSE call[f]]

\* train_product_model: the result it returns.
TrainResult(n, fault) ==
  IF TrainFails(n, fault)
  THEN [success |-> FALSE, error |-> TrainError(n, fault)]
  ELSE [success |-> TRUE, error |-> "", data_points |-> n,
        metrics |-> validate_model(n, fault)]

\* train_product_model: its effect on the artifacts and on the predictor.
TrainEffects(product_id, n, fault) ==
  IF TrainFails(n, fault)
  THEN /\ modelFiles' = FilesAfterFailure(product_id, n, fault)
       /\ UNCHANGED <<models, model_metrics, trained>>
  ELSE LET model == [product |-> product_id, points |-> n]
       IN /\ modelFiles' = WriteModel(modelFiles, product_id, model)
          /\ models' = [models EXCEPT ![product_id] = model]
          /\ model_metrics' = [model_metrics EXCEPT ![product_id] = validate_model(n, fault)]
          /\ trained' = [trained EXCEPT ![product_id] = model]

train_product_model(product_id, n, fault) ==
  /\ TrainEffects(product_id, n, fault)
  /\ ret' = Returned([op |-> "train_product_model", product_id |-> product_id,
                      points |-> n, fault |-> fault],
                     TrainResult(n, fault))

\* A load that falls back on the artifact of any product.
LoadedAnyModel(product_id, fault) ==
  IF \E q \in Products : modelFiles[q] # NoModel
  THEN modelFiles[CHOOSE q \in Products : modelFiles[q] # NoModel]
  ELSE NoModel

\* load_model: what it returns; NoModel is None.  A pickle read that raises
\* is caught and gives None.
LoadedModel(product_id, fault) ==
  IF modelFiles[ModelPath(product_id)] = NoModel THEN NoModel
  ELSE IF fault = "load" THEN NoModel
  ELSE modelFiles[ModelPath(product_id)]

\* load_model: its effect on the in-memory map.
ModelsAfterLoad(product_id, fault) ==
  IF LoadedModel(product_id, fault) = NoModel THEN models
  ELSE [models EXCEPT ![product_id] = LoadedModel(product_id, fault)]

load_model(product_id, fault) ==
  /\ models' = ModelsAfterLoad(product_id, fault)
  /\ UNCHANGED <<modelFiles, model_metrics, trained>>
  /\ ret' = [op |-> "load_model", product_id |-> product_id, fault |-> fault,
             model |-> LoadedModel(product_id, fault)]

TrainFaults == {"none", "load_sales", "fit", "validate", "write"}
LoadFaults == {"none", "load"}

TrainProductModel(points, faults) ==
  /\ Ready
  /\ \E p \in Products, n \in points, fault \in faults :
       train_product_model(p, n, fault)
  /\ UNCHANGED <<forecasts, alerts, batch, cache, now>>

LoadModel ==
  /\ Ready
  /\ \E p \in Products, fault \in LoadFaults : load_model(p, fault)
  /\ UNCHANGED <<forecasts, alerts, batch, cache, now>>

NextModels ==
  \/ TrainProductModel(0 .. MaxPoints, TrainFaults)
  \/ LoadModel
  \/ ReturnToCaller

SpecModels == Init /\ [][NextModels]_vars

\* ------------------------------------------------------ forecast generator
\* The black box: what model.predict gives for the h future days, a flat
\* demand d with an interval of half-width w (d may be negative).
ModelOutput(h, d, w) ==
  [i \in 1 .. h |-> [ds |-> i, yhat |-> d, yhat_lower |-> d - w, yhat_upper |-> d + w]]

\* Lines 111-114: the three series are clipped at 0.
ClipForecast(raw) ==
  [i \in 1 .. Len(raw) |->
     [ds |-> raw[i].ds, yhat |-> Clip(raw[i].yhat),
      yhat_lower |-> Clip(raw[i].yhat_lower), yhat_upper |-> Clip(raw[i].yhat_upper)]]

\* Line 92: forecast_days or the default; None and 0 are both falsy.
EffectiveDays(forecast_days) ==
  IF forecast_days = 0 THEN DefaultForecastDays ELSE forecast_days

\* Lines 116-156: the result compiled from the forecast and the stock read.
CompileResult(product_id, forecast_days, future_forecast, reading) ==
  LET current_stock == CurrentStock(reading)
      stockout_info == calculate_days_until_stockout(current_stock, future_forecast)
      reorder_info == calculate_reorder_quantity(future_forecast, LeadTimeDays,
                                                 SafetyStockDays, MinimumOrderQty)
  IN [success |-> TRUE, product_id |-> product_id, days |-> forecast_days,
      current_stock |-> current_stock,
      stockout_analysis |-> stockout_info,
      reorder_recommendation |-> reorder_info,
      alert_level |-> calculate_alert_level(stockout_info, current_stock),
      forecast_data |-> future_forecast]

\* Lines 216-230: one record per predicted day.
ForecastRecords(forecast_result) ==
  [i \in 1 .. Len(forecast_result.forecast_data) |->
     [product_id |-> forecast_result.product_id,
      forecast_date |-> forecast_result.forecast_data[i].ds,
      predicted_demand |-> forecast_result.forecast_data[i].yhat,
      rupture_risk |->
        calculate_rupture_risk(forecast_result.stockout_analysis.days_until_stockout),
      recommended_order_qty |->
        forecast_result.reorder_recommendation.recommended_quantity]]

\* A save that appends without deleting.
KeepAll(table, product_id) == table

\* Lines 233-235: delete().eq('product_id', ...).
DeleteForecasts(table, product_id) ==
  LET Other(r) == r.product_id # product_id IN SelectSeq(table, Other)

\* A raise that never finds an alert in place.
NoExisting(table, product_id) == {}

\* A check that also counts the resolved alerts of the product.
ExistingAnyState(table, product_id) ==
  {i \in 1 .. Len(table) : table[i].product_id = product_id}

\* Lines 296-298: the unresolved alerts of the product.
ExistingAlerts(table, product_id) ==
  {i \in 1 .. Len(table) : table[i].product_id = product_id /\ ~table[i].is_resolved}

\* _create_alert: the alerts table after it.  A failure of its select or of
\* its insert (fault "alert") is caught inside and leaves the table as it was.
create_alert(table, forecast_result, fault) ==
  LET stockout_days == forecast_result.stockout_analysis.days_until_stockout
      alert_data ==
        [product_id |-> forecast_result.product_id,
         alert_type |-> IF stockout_days <= 7 THEN "rupture_imminente" ELSE "rupture_prevue",
         severity |-> forecast_result.alert_level,
         message |-> stockout_days,
         recommended_action |-> forecast_result.reorder_recommendation.recommended_quantity,
         is_resolved |-> FALSE]
  IN IF fault = "alert" THEN table
     ELSE IF ExistingAlerts(table, forecast_result.product_id) # {} THEN table
     ELSE Append(table, alert_data)

\* A save that clears the product's alerts along with its forecast rows
\* before raising the new one.
SaveReplacingAlerts(forecast_result, fault) ==
  LET deleted == DeleteForecasts(forecasts, forecast_result.product_id)
      inserted == deleted \o ForecastRecords(forecast_result)
      cleared == DeleteForecasts(alerts, forecast_result.product_id)
  IN IF fault = "delete"
     THEN [forecasts |-> forecasts, alerts |-> alerts, saved |-> FALSE]
     ELSE IF fault = "insert"
     THEN [forecasts |-> deleted, alerts |-> alerts, saved |-> FALSE]
     ELSE [forecasts |-> inserted,
           alerts |-> IF forecast_result.alert_level \in {"CRITICAL", "HIGH"}
                      THEN create_alert(cleared, forecast_result, fault)
                      ELSE alerts,
           saved |-> TRUE]

\* _save_forecast_to_db: the two tables after it and the flag it returns
\* (which generate_product_forecast does not read).
save_forecast_to_db(forecast_result, fault) ==
  LET deleted == DeleteForecasts(forecasts, forecast_result.product_id)
      inserted == deleted \o ForecastRecords(forecast_result)
  IN IF fault = "delete"
     THEN [forecasts |-> forecasts, alerts |-> alerts, saved |-> FALSE]
     ELSE IF fault = "insert"
     THEN [forecasts |-> deleted, alerts |-> alerts, saved |-> FALSE]
     ELSE [forecasts |-> inserted,
           alerts |-> IF forecast_result.alert_level \in {"CRITICAL", "HIGH"}
                      THEN create_alert(alerts, forecast_result, fault)
                      ELSE alerts,
           saved |-> TRUE]

\* What the call was made on, kept with the returned value.
Call(product_id, forecast_days, save_to_db, fault) ==
  [op |-> "generate_product_forecast", product_id |-> product_id,
   forecast_days |-> forecast_days, save_to_db |-> save_to_db, fault |-> fault,
   rows_before |-> Len(forecasts) - Len(DeleteForecasts(forecasts, product_id))]

\* Lines 169-171 and 98-101: the two failure results.
Failure(error) == [success |-> FALSE, error |-> error]

\* generate_product_forecast: the result it returns.  d, w: the model's
\* output; stock_data: the latest stock snapshot; fault: the step that
\* raises, if any ("compute": model.predict or load_stock_levels).
ForecastResult(product_id, forecast_days, d, w, stock_data, fault) ==
  IF LoadedModel(product_id, fault) = NoModel THEN Failure("model_not_found")
  ELSE IF fault = "compute" THEN Failure("exception")
  ELSE CompileResult(product_id, EffectiveDays(forecast_days),
                     ClipForecast(ModelOutput(EffectiveDays(forecast_days), d, w)),
                     stock_data)

\* A forecast that is saved whatever save_to_db says.
TablesAfterSaving(forecast_result, save_to_db, fault) ==
  IF forecast_result.success
  THEN save_forecast_to_db(forecast_result, fault)
  ELSE [forecasts |-> forecasts, alerts |-> alerts, saved |-> FALSE]

\* Lines 158-160: the tables after the call.
TablesAfter(forecast_result, save_to_db, fault) ==
  IF forecast_result.success /\ save_to_db
  THEN save_forecast_to_db(forecast_result, fault)
  ELSE [forecasts |-> forecasts, alerts |-> alerts, saved |-> FALSE]

\* The returned value without its bulk, the per-day forecast_data.
Summary(result) ==
  [f \in DOMAIN result \ {"forecast_data"} |-> result[f]]

\* The effect of one generate_product_forecast call on the predictor and on
\* the tables.
ForecastEffects(product_id, forecast_days, save_to_db, d, w, stock_data, fault) ==
  LET db == TablesAfter(ForecastResult(product_id, forecast_days, d, w, stock_data, fault),
                        save_to_db, fault)
  IN /\ models' = ModelsAfterLoad(product_id, fault)
     /\ UNCHANGED <<modelFiles, model_metrics, trained>>
     /\ forecasts' = db.forecasts
     /\ alerts' = db.alerts

generate_product_forecast(product_id, forecast_days, save_to_db, d, w, stock_data, fault) ==
  /\ ForecastEffects(product_id, forecast_days, save_to_db, d, w, stock_data, fault)
  /\ ret' = Returned(Call(product_id, forecast_days, save_to_db, fault),
                     Summary(ForecastResult(product_id, forecast_days, d, w, stock_data, fault)))

\* ------------------------------------------------------------ input sets
Horizons == {0, 31}
Demands == {5}
Widths == {1}
Readings == {NoSnapshot, Snapshot(50), Snapshot(200)}
\* The steps of generate_product_forecast that may raise: the computation
\* (model.predict, load_stock_levels) and, when saving, the store calls.
ComputeFaults == {"none", "compute"}
ForecastFaults == ComputeFaults \cup {"delete", "insert", "alert"}
SpecPoints == {MinTrainPoints - 1, MinTrainPoints}
SpecTrainFaults == {"none", "fit"}

\* ------------------------------------------------- generate_all_forecasts
\* Lines 319-326: the product list (empty when get_product_list fails) and
\* the counters.
StartResults(products) ==
  [total_products |-> Len(products), successful |-> 0, failed |-> 0,
   alerts_created |-> 0, details |-> <<>>]

\* A loop that drops a failed product without recording it.
CountSuccessesOnly(results, product_id, forecast_result) ==
  IF forecast_result.success
  THEN [total_products |-> results.total_products,
        successful |-> results.successful + 1,
        failed |-> results.failed,
        alerts_created |-> results.alerts_created,
        details |-> Append(results.details,
                           [product_id |-> product_id, success |-> TRUE,
                            alert_level |-> forecast_result.alert_level])]
  ELSE results

\* Lines 335-347: the counters after one product's forecast_result.
CountResult(results, product_id, forecast_result) ==
  LET level == IF "alert_level" \in DOMAIN forecast_result
               THEN forecast_result.alert_level ELSE "UNKNOWN"
      alerting == forecast_result.success /\ level \in {"CRITICAL", "HIGH"}
  IN [total_products |-> results.total_products,
      successful |-> results.successful + (IF forecast_result.success THEN 1 ELSE 0),
      failed |-> results.failed + (IF forecast_result.success THEN 0 ELSE 1),
      alerts_created |-> results.alerts_created + (IF alerting THEN 1 ELSE 0),
      details |-> Append(results.details,
                         [product_id |-> product_id,
                          success |-> forecast_result.success,
                          alert_level |-> level])]

\* The orders in which get_product_list may return the products it keeps.
ProductLists ==
  {<<>>} \cup {<<p>> : p \in Products}
         \cup {pq \in Products \X Products : pq[1] # pq[2]}

BatchStart ==
  /\ Ready
  /\ \E products \in ProductLists :
       batch' = [running |-> TRUE, products |-> products, todo |-> products,
                 results |-> StartResults(products)]
  /\ UNCHANGED <<modelFiles, models, model_metrics, trained, forecasts, alerts, cache, now, ret>>

\* One iteration of the loop: forecast_days is left to its default and
\* save_to_db is True.  faults: the steps of the forecast that may raise.
BatchIteration(readings, faults) ==
  /\ batch.running
  /\ batch.todo # <<>>
  /\ Len(alerts) < MaxAlerts
  /\ \E d \in Demands, w \in Widths, stock_data \in readings, fault \in faults :
       /\ ForecastEffects(Head(batch.todo), 0, TRUE, d, w, stock_data, fault)
       /\ batch' = [running |-> TRUE, products |-> batch.products,
                    todo |-> Tail(batch.todo),
                    results |-> CountResult(batch.results, Head(batch.todo),
                                            ForecastResult(Head(batch.todo), 0, d, w,
                                                           stock_data, fault))]
  /\ UNCHANGED <<cache, now, ret>>

BatchStep(readings) == BatchIteration(readings, ForecastFaults)

BatchEnd ==
  /\ batch.running
  /\ batch.todo = <<>>
  /\ ret' = [op |-> "generate_all_forecasts", products |-> batch.products,
             results |-> batch.results]
  /\ batch' = NoBatch
  /\ UNCHANGED <<modelFiles, models, model_metrics, trained, forecasts, alerts, cache, now>>

GenerateProductForecast(horizons, readings) ==
  /\ Ready
  /\ Len(alerts) < MaxAlerts
  /\ \E p \in Products, h \in horizons, save \in BOOLEAN, d \in Demands,
        w \in Widths, stock_data \in readings :
       \E fault \in (IF save THEN ForecastFaults ELSE ComputeFaults) :
         generate_product_forecast(p, h, save, d, w, stock_data, fault)
  /\ UNCHANGED <<batch, cache, now>>

Next ==
  \/ TrainProductModel(SpecPoints, SpecTrainFaults)
  \/ GenerateProductForecast(Horizons, Readings)
  \/ ReturnToCaller

Spec == Init /\ [][Next]_vars

BatchHorizons == {0}
BatchReadings == Readings

NextBatch ==
  \/ TrainProductModel(SpecPoints, SpecTrainFaults)
  \/ GenerateProductForecast(BatchHorizons, BatchReadings)
  \/ BatchStart
  \/ BatchStep(BatchReadings)
  \/ BatchEnd
  \/ ReturnToCaller

SpecBatch == Init /\ [][NextBatch]_vars

\* The batch alone, on trained and untrained products.  The loop of
\* generate_all_forecasts is straight-line code: a started batch keeps
\* taking its next iteration and then returns.  Every iteration is enabled
\* by the same condition (a product is left), whatever its inputs, so the
\* fairness of the loop is stated on the iteration that is cheapest to
\* evaluate, the one whose forecast raises at once.
LoopReadings == {NoSnapshot, Snapshot(200)}

NextBatchLoop ==
  \/ TrainProductModel({MinTrainPoints}, {"none"})
  \/ BatchStart
  \/ BatchStep(LoopReadings)
  \/ BatchEnd
  \/ ReturnToCaller

SpecBatchFair ==
  /\ Init /\ [][NextBatchLoop]_vars
  /\ WF_vars(BatchIteration(LoopReadings, {"compute"})) /\ WF_vars(BatchEnd)

\* -------------------------------------------------------- evaluation engine
Min(a, b) == IF a <= b THEN a ELSE b

\* Rows of data[:split_point] for a frame of n rows: a negative split_point
\* counts from the end.
SliceLen(n, split_point) ==
  IF split_point >= 0 THEN Min(split_point, n) ELSE Max(n + split_point, 0)

\* Lines 93-96: the lengths of train_data and test_data.
EvalSplit(n, test_days) ==
  [train_days |-> SliceLen(n, n - test_days),
   test_days |-> n - SliceLen(n, n - test_days)]

\* The floors of a split, train >= 20 dropped.
SplitRejectedTestOnly(split) == split.test_days < MinEvalTest

\* Line 98: the split is refused.
SplitRejected(split) ==
  split.train_days < MinEvalTrain \/ split.test_days < MinEvalTest

\* evaluate_single_product on a product whose prepared daily series has n
\* points (0: no sales rows).  mape: what the metrics of the throwaway model
\* come to; fault: "load_sales" when the read of the sales raises, "fit"
\* when the fit or the prediction does.
evaluate_single_product(product_id, n, test_days, mape, fault) ==
  IF fault = "load_sales"
  THEN [success |-> FALSE, error |-> "exception", product_id |-> product_id]
  ELSE IF n = 0
  THEN [success |-> FALSE, error |-> "no_sales_data", product_id |-> product_id]
  ELSE IF n < MinEvalPoints
  THEN [success |-> FALSE, error |-> "insufficient_data", product_id |-> product_id]
  ELSE IF SplitRejected(EvalSplit(n, test_days))
  THEN [success |-> FALSE, error |-> "split_impossible", product_id |-> product_id]
  ELSE IF fault = "fit"
  THEN [success |-> FALSE, error |-> "exception", product_id |-> product_id]
  ELSE [success |-> TRUE, product_id |-> product_id,
        data_summary |-> [total_days |-> n,
                          train_days |-> EvalSplit(n, test_days).train_days,
                          test_days |-> EvalSplit(n, test_days).test_days],
        metrics |-> [mape |-> mape]]

\* ------------------------------------------------------------ alert ranking
\* OptiFlowEngine._SEVERITY_ORDER with its default of 5.
SeverityRank(severity) ==
  CASE severity = "CRITICAL" -> 1
    [] severity = "HIGH" -> 2
    [] severity = "MEDIUM" -> 3
    [] severity = "LOW" -> 4
    [] OTHER -> 5

\* a.get("severity", "UNKNOWN")
SeverityOf(a) == IF "severity" \in DOMAIN a THEN a.severity ELSE "UNKNOWN"

\* An order that puts the most recent alert of a severity first.
KeyLessNewestFirst(a, b) ==
  \/ SeverityRank(SeverityOf(a)) < SeverityRank(SeverityOf(b))
  \/ /\ SeverityRank(SeverityOf(a)) = SeverityRank(SeverityOf(b))
     /\ a.created_at > b.created_at

\* The sort key (severity rank, created_at), compared as tuples.
KeyLess(a, b) ==
  \/ SeverityRank(SeverityOf(a)) < SeverityRank(SeverityOf(b))
  \/ /\ SeverityRank(SeverityOf(a)) = SeverityRank(SeverityOf(b))
     /\ a.created_at < b.created_at

\* sorted() is stable: a goes after every row whose key is not above its own.
InsertSorted(sorted, a) ==
  LET k == Cardinality({j \in 1 .. Len(sorted) : ~KeyLess(a, sorted[j])})
  IN SubSeq(sorted, 1, k) \o <<a>> \o SubSeq(sorted, k + 1, Len(sorted))

RECURSIVE SortedAlerts(_, _)
\* sorted(alerts, key=...) over the first k rows.
SortedAlerts(rows, k) ==
  IF k = 0 THEN <<>> ELSE InsertSorted(SortedAlerts(rows, k - 1), rows[k])

\* select("*").eq("is_resolved", False)
ActiveAlerts(rows) ==
  LET Open(a) == a.is_resolved = FALSE IN SelectSeq(rows, Open)

\* get_active_alerts on the rows of the alerts table.
get_active_alerts(rows) ==
  LET alerts_sorted == SortedAlerts(ActiveAlerts(rows), Len(ActiveAlerts(rows)))
  IN [total_active_alerts |-> Len(alerts_sorted), alerts |-> alerts_sorted]

\* get_dashboard_data, lines 100-115: the first five of the same sort.
top_risks(rows) ==
  LET sorted_alerts == SortedAlerts(ActiveAlerts(rows), Len(ActiveAlerts(rows)))
      shown == SubSeq(sorted_alerts, 1, Min(TopRisksShown, Len(sorted_alerts)))
  IN [i \in 1 .. Len(shown) |->
        [product_id |-> shown[i].product_id,
         severity |-> IF "severity" \in DOMAIN shown[i] THEN shown[i].severity ELSE "None",
         message |-> shown[i].message]]

\* ------------------------------------------------------- series preparation
\* A sales row carries a timestamp in half-days (two to a calendar day) and
\* a quantity, which a return makes negative.
\* df[date_col].dt.date: the calendar day of a timestamp.
DayOf(timestamp) == timestamp \div 2

RECURSIVE DaySumClipped(_, _, _)
\* A sum that clips each row before adding it.
DaySumClipped(records, day, k) ==
  IF k = 0 THEN 0
  ELSE DaySumClipped(records, day, k - 1)
       + (IF DayOf(records[k].date) = day THEN Clip(records[k].quantity_sold) ELSE 0)

RECURSIVE DaySum(_, _, _)
\* groupby(date)[value_col].sum(): the sum of the first k rows that fall on day.
DaySum(records, day, k) ==
  IF k = 0 THEN 0
  ELSE DaySum(records, day, k - 1)
       + (IF DayOf(records[k].date) = day THEN records[k].quantity_sold ELSE 0)

RECURSIVE SortedDays(_)
\* sort_values('ds'): the days of a set, ascending.
SortedDays(days) ==
  IF days = {} THEN <<>>
  ELSE LET first == CHOOSE d \in days : \A e \in days : d <= e
       IN <<first>> \o SortedDays(days \ {first})

\* prepare_prophet_data on the rows records of a frame whose columns are
\* columns: the series it returns, or the error it raises.
prepare_prophet_data(records, columns) ==
  IF Len(records) = 0 THEN [raised |-> FALSE, series |-> <<>>]
  ELSE IF "date" \notin columns \/ "quantity_sold" \notin columns
  THEN [raised |-> TRUE, series |-> <<>>]
  ELSE LET days == SortedDays({DayOf(records[i].date) : i \in 1 .. Len(records)})
       IN [raised |-> FALSE,
           series |-> [i \in 1 .. Len(days) |->
                         [ds |-> days[i],
                          y |-> Clip(DaySum(records, days[i], Len(records)))]]]

\* -------------------------------------------------------- double arithmetic
\* A non-negative double: sig, its 53 significand bits, the most significant
\* first (sig[1] = 1), and exp, the binary exponent of sig[1]; zero has no
\* bits.  Every operation gives the double nearest to the exact result, the
\* one with an even significand when the exact result lies half-way.
DoubleBits == FractionBits + 1
Digits == Seq({0, 1})
Doubles == [sig : Digits, exp : Int]
Zero == [sig |-> <<>>, exp |-> 0]
IsZero(x) == x.sig = <<>>
Zeros(k) == [i \in 1 .. k |-> 0]

\* The binary digits of a natural number, none for 0.
IntBits[c \in Nat] == IF c = 0 THEN <<>> ELSE Append(IntBits[c \div 2], c % 2)

\* The number written by the first k digits.
BitsValue[bits \in Digits, k \in Nat] ==
  IF k = 0 THEN 0 ELSE 2 * BitsValue[bits, k - 1] + bits[k]

\* The digit at position i, 0 outside the digits written.
Digit(bits, i) == IF i >= 1 /\ i <= Len(bits) THEN bits[i] ELSE 0

\* The number written by the eight digits that end at position to.
Byte(bits, to) ==
  Digit(bits, to) + 2 * Digit(bits, to - 1) + 4 * Digit(bits, to - 2)
    + 8 * Digit(bits, to - 3) + 16 * Digit(bits, to - 4) + 32 * Digit(bits, to - 5)
    + 64 * Digit(bits, to - 6) + 128 * Digit(bits, to - 7)

\* c < 2^k written on k digits.
PadBits(c, k) == [i \in 1 .. k |-> (c \div (2 ^ (k - i))) % 2]

\* The position of the first digit 1.
Leading(bits) ==
  CHOOSE j \in 1 .. Len(bits) : bits[j] = 1 /\ \A i \in 1 .. j - 1 : bits[i] = 0

\* The double nearest to the number written by bits (bits[1] = 1, of weight
\* 2^exp) plus, when sticky, something under the weight of the last digit.
Nearest(bits, exp, sticky) ==
  LET n == Len(bits)
      Bit(i) == IF i <= n THEN bits[i] ELSE 0
      kept == [i \in 1 .. DoubleBits |-> Bit(i)]
      rest == sticky \/ \E i \in DoubleBits + 2 .. n : bits[i] = 1
      up == Bit(DoubleBits + 1) = 1 /\ (rest \/ kept[DoubleBits] = 1)
      last == CHOOSE j \in 0 .. DoubleBits :
                /\ j = 0 \/ kept[j] = 0
                /\ \A i \in j + 1 .. DoubleBits : kept[i] = 1
  IN IF ~up THEN [sig |-> kept, exp |-> exp]
     ELSE IF last = 0
     THEN [sig |-> [i \in 1 .. DoubleBits |-> IF i = 1 THEN 1 ELSE 0], exp |-> exp + 1]
     ELSE [sig |-> [i \in 1 .. DoubleBits |->
                      IF i < last THEN kept[i] ELSE IF i = last THEN 1 ELSE 0],
           exp |-> exp]

\* p / q = (num / den) * 2^exp with 1 <= num / den < 2.
Scaled[p \in Nat, q \in Nat, e \in Int] ==
  IF p < q THEN Scaled[2 * p, q, e - 1]
  ELSE IF p >= 2 * q THEN Scaled[p, 2 * q, e + 1]
  ELSE [num |-> p, den |-> q, exp |-> e]

\* The digits found so far followed by the next k binary digits of
\* r / den < 2, and what is left of r; up to eight digits at a time.
QuotientDigits[found \in Digits, r \in Nat, den \in Nat, k \in Nat] ==
  IF k = 0 THEN [bits |-> found, rest |-> r]
  ELSE LET width == IF k < 8 THEN k ELSE 8
           cur == r * (2 ^ (width - 1))
       IN QuotientDigits[found \o PadBits(cur \div den, width), 2 * (cur % den), den,
                         k - width]

\* The double nearest to a quotient whose digits d.bits start at weight
\* 2^exp, d.rest being what the division has left.
Rounded(d, exp) == Nearest(d.bits, exp, d.rest # 0)

\* The double nearest to the whole number written by bits, its last digit
\* of weight 2^exp.
Normal(bits, exp) == Nearest(bits, exp + Len(bits) - 1, FALSE)

\* The double of (s.num / s.den) * 2^s.exp.
DoubleOf(s) == Rounded(QuotientDigits[<<>>, s.num, s.den, DoubleBits + 2], s.exp)

\* p / q in doubles, for naturals p and q > 0.
Double(p, q) == IF p = 0 THEN Zero ELSE DoubleOf(Scaled[p, q, 0])

\* The digits of a + b: those of a[1 .. i] + b[1 .. i] + carry followed by
\* the lower digits already found; up to eight digits at a time.
SumFrom[found \in Digits, a \in Digits, b \in Digits, i \in Nat, carry \in Nat] ==
  IF i = 0 THEN IntBits[carry] \o found
  ELSE LET width == IF i < 8 THEN i ELSE 8
           t == Byte(a, i) + Byte(b, i) + carry
       IN SumFrom[PadBits(t % (2 ^ width), width) \o found, a, b, i - width,
                  t \div (2 ^ width)]

\* x + y.  A term more than 55 binary places under the other is under a
\* quarter of its last place and leaves it as it is.
Plus(x, y) ==
  IF IsZero(x) THEN y
  ELSE IF IsZero(y) THEN x
  ELSE LET hi == IF x.exp >= y.exp THEN x ELSE y
           lo == IF x.exp >= y.exp THEN y ELSE x
           shift == hi.exp - lo.exp
       IN IF shift > DoubleBits + 2 THEN hi
          ELSE Normal(SumFrom[<<>>, hi.sig \o Zeros(shift), Zeros(shift) \o lo.sig,
                              DoubleBits + shift, 0],
                      hi.exp - (DoubleBits + shift) + 1)

\* The digits of bits * k: those of bits[1 .. i] * k + carry followed by
\* the lower digits already found; up to eight digits at a time.
TimesFrom[found \in Digits, bits \in Digits, k \in Nat, i \in Nat, carry \in Nat] ==
  IF i = 0 THEN IntBits[carry] \o found
  ELSE LET width == IF i < 8 THEN i ELSE 8
           t == Byte(bits, i) * k + carry
       IN TimesFrom[PadBits(t % (2 ^ width), width) \o found, bits, k, i - width,
                    t \div (2 ^ width)]

\* x * k for a natural k.
Times(x, k) ==
  IF IsZero(x) \/ k = 0 THEN Zero
  ELSE Normal(TimesFrom[<<>>, x.sig, k, DoubleBits, 0], x.exp - DoubleBits + 1)

\* bits, followed by zeros, divided by n: the digits of the quotient found
\* so far, r carried down, and the digits up to position last to come; up
\* to eight digits at a time.
LongDivision[found \in Digits, bits \in Digits, n \in Nat, r \in Nat, last \in Nat] ==
  IF Len(found) = last THEN [bits |-> found, rest |-> r]
  ELSE LET width == IF last - Len(found) < 8 THEN last - Len(found) ELSE 8
           cur == r * (2 ^ width) + (Byte(bits, Len(found) + width) % (2 ^ width))
       IN LongDivision[found \o PadBits(cur \div n, width), bits, n, cur % n, last]

\* The double nearest to a quotient whose digits q.bits start, with zeros,
\* at weight 2^exp.
Significant(q, exp) ==
  Nearest(SubSeq(q.bits, Leading(q.bits), Len(q.bits)), exp - (Leading(q.bits) - 1),
          q.rest # 0)

\* x / n for a natural n > 0.
Over(x, n) ==
  IF IsZero(x) THEN Zero
  ELSE Significant(LongDivision[<<>>, x.sig, n, 0, DoubleBits + Len(IntBits[n]) + 2],
                   x.exp)

\* np.rint: the nearest integer, the even one half-way.
Rint(x) ==
  IF IsZero(x) \/ x.exp < -1 THEN 0
  ELSE LET Bit(i) == IF i <= DoubleBits THEN x.sig[i] ELSE 0
           whole == BitsValue[[i \in 1 .. x.exp + 1 |-> Bit(i)], x.exp + 1]
           rest == \E i \in x.exp + 3 .. DoubleBits : x.sig[i] = 1
       IN IF Bit(x.exp + 2) = 1 /\ (rest \/ whole % 2 = 1) THEN whole + 1 ELSE whole

\* res += a[i] for i = from .. to, in this order.
Accumulate[res \in Doubles, a \in Seq(Doubles), from \in Nat, to \in Nat] ==
  IF from > to THEN res ELSE Accumulate[Plus(res, a[from]), a, from + 1, to]

\* The j-th of the eight partial sums of a block: a[j] + a[j + 8] + ...
\* over the whole groups of eight.
Lane[a \in Seq(Doubles), j \in Nat, groups \in Nat] ==
  IF groups = 1 THEN a[j] ELSE Plus(Lane[a, j, groups - 1], a[j + 8 * (groups - 1)])

\* The sums of the neighbours r[1] + r[2], r[3] + r[4], ...
Halved(r) == [j \in 1 .. Len(r) \div 2 |-> Plus(r[2 * j - 1], r[2 * j])]

RECURSIVE pairwise_sum(_)
\* np.add.reduce on a contiguous array of doubles: a plain loop under 8
\* values; up to 128 values eight partial sums, added as
\* ((r1 + r2) + (r3 + r4)) + ((r5 + r6) + (r7 + r8)), then the values
\* left; two halves above.
pairwise_sum(a) ==
  IF Len(a) < 8 THEN Accumulate[Zero, a, 1, Len(a)]
  ELSE IF Len(a) <= 128
  THEN Accumulate[Halved(Halved(Halved([j \in 1 .. 8 |-> Lane[a, j, Len(a) \div 8]])))[1],
                  a, 8 * (Len(a) \div 8) + 1, Len(a)]
  ELSE LET half == (Len(a) \div 2) - ((Len(a) \div 2) % 8)
       IN Plus(pairwise_sum(SubSeq(a, 1, half)), pairwise_sum(SubSeq(a, half + 1, Len(a))))

\* np.mean of a non-empty array.
np_mean(a) == Over(pairwise_sum(a), Len(a))

\* round(x, 2) of a numpy double, in hundredths: np.rint(x * 100); the
\* division by 100 that follows gives the double of that many hundredths.
round2(x) == Rint(Times(x, 100))

\* ------------------------------------------------------------------ metrics
\* A MAPE is kept in hundredths of a percent (the source rounds it to two
\* decimals); a test segment is a sequence of [actual, predicted] pairs of
\* whole units.
Abs(x) == IF x < 0 THEN -x ELSE x

\* |y_true - y_pred| / np.maximum(y_true, 0.1).  The double 0.1 is
\* (1 + 2^-54) / 10, so that a natural d divided by it gives the double
\* 10 d, the quotient lying under a quarter of a last place below it.
AbsoluteRatio(pair) ==
  IF pair.actual >= 1
  THEN Double(Abs(pair.actual - pair.predicted), pair.actual)
  ELSE Double(10 * Abs(pair.actual - pair.predicted), 1)

\* np.mean(np.abs((y_true - y_pred) / y_true_safe)) * 100, before rounding.
MeanApe(pairs) ==
  Times(np_mean([i \in 1 .. Len(pairs) |-> AbsoluteRatio(pairs[i])]), 100)

\* evaluate.py, _calculate_detailed_metrics: the MAPE of an evaluation
\* report, round(mape, 2).
detailed_metrics(pairs) == [mape |-> round2(MeanApe(pairs))]

\* train_models.py, lines 221-251: the metrics of the holdout validation
\* on a test segment, zero on fewer than 2 test points and
\* round(min(mape, 999), 2) otherwise; the rounding does not decrease, so
\* the least of the two can be taken after it.
validation_metrics(pairs) ==
  IF Len(pairs) < 2
  THEN [mape |-> 0, validation |-> "insufficient_test_data"]
  ELSE [mape |-> Min(round2(MeanApe(pairs)), 999 * 100), validation |-> "success"]

\* ---------------------------------------------------------- pure functions
\* Forecasts of up to MaxLen days with per-day point estimates in
\* -1 .. MaxDemand and an interval of half-width w around each.
WithBounds(yhats, w) ==
  [i \in 1 .. Len(yhats) |->
     [ds |-> i, yhat |-> yhats[i], yhat_lower |-> yhats[i] - w, yhat_upper |-> yhats[i] + w]]

PointEstimates == UNION {[1 .. n -> -1 .. MaxDemand] : n \in 0 .. MaxLen}

PureStocks == -1 .. MaxStock

\* The scenario of the specification: stock 50 against 5 units/day for 30 days.
ScenarioStock == 50
ScenarioForecast == ModelOutput(DefaultForecastDays, 5, 1)

\* Steps 4 and 6 of generate_product_forecast on a given stock and forecast.
stockout_call(current_stock, daily_forecast) ==
  LET stockout_info == calculate_days_until_stockout(current_stock, daily_forecast)
  IN ret' = [op |-> "calculate_days_until_stockout",
             current_stock |-> current_stock,
             daily_forecast |-> daily_forecast,
             stockout_info |-> stockout_info,
             alert_level |-> calculate_alert_level(stockout_info, current_stock)]

StockoutCall ==
  /\ Ready
  /\ \/ \E current_stock \in PureStocks, yhats \in PointEstimates, w \in {0, 1} :
          stockout_call(current_stock, WithBounds(yhats, w))
     \/ stockout_call(ScenarioStock, ScenarioForecast)
  /\ UNCHANGED <<modelFiles, models, model_metrics, trained, forecasts, alerts, batch, cache, now>>

\* Steps 3 and 6 of generate_product_forecast on a given snapshot and day count.
AlertLevelCall ==
  /\ Ready
  /\ \E stock_data \in {NoSnapshot} \cup {Snapshot(q) : q \in PureStocks},
        days \in 0 .. MaxDays :
       ret' = [op |-> "calculate_alert_level",
               stock_data |-> stock_data,
               current_stock |-> CurrentStock(stock_data),
               days_until_stockout |-> days,
               alert_level |-> calculate_alert_level([days_until_stockout |-> days],
                                                     CurrentStock(stock_data))]
  /\ UNCHANGED <<modelFiles, models, model_metrics, trained, forecasts, alerts, batch, cache, now>>

\* The forecasts and minimum orders of the direct calls: one forecast of
\* 7 over 3 days and a minimum of 35 are added, whose coverage, 35 / (7/3)
\* = 15 in exact arithmetic, comes out as 14 in doubles.
ReorderForecasts == PointEstimates \cup {<<3, 2, 2>>}
MinimumOrders == 0 .. 2 \cup {35}

\* calculate_reorder_quantity called directly, and called as step 5 of
\* generate_product_forecast on a 30-day forecast of flat demand d.
ReorderCall ==
  /\ Ready
  /\ \/ \E yhats \in ReorderForecasts, lead_time_days \in 0 .. 1, safety_stock_days \in 0 .. 2,
            minimum_order_qty \in MinimumOrders, halvings \in {0, 1} :
          ret' = [op |-> "calculate_reorder_quantity",
                  forecast_df |-> WithBounds(yhats, 0),
                  lead_time_days |-> lead_time_days,
                  safety_stock_days |-> safety_stock_days,
                  minimum_order_qty |-> minimum_order_qty,
                  unit |-> PowerOfTwo(halvings),
                  reorder_info |-> ReorderQuantity(WithBounds(yhats, 0), lead_time_days,
                                                   safety_stock_days, minimum_order_qty, halvings)]
     \/ \E d \in -1 .. MaxDemand :
          ret' = [op |-> "reorder_recommendation", d |-> d,
                  reorder_info |->
                    CompileResult(1, DefaultForecastDays,
                                  ClipForecast(ModelOutput(DefaultForecastDays, d, 1)),
                                  Snapshot(ScenarioStock)).reorder_recommendation]
  /\ UNCHANGED <<modelFiles, models, model_metrics, trained, forecasts, alerts, batch, cache, now>>

\* Alert rows as _create_alert writes them, resolved or not (the flag is set
\* by the operator, outside this code).
AlertRows ==
  [product_id : Products, alert_type : {"rupture_imminente"},
   severity : {"CRITICAL", "HIGH"}, message : {3}, recommended_action : {1},
   is_resolved : BOOLEAN]

AlertTables == UNION {[1 .. n -> AlertRows] : n \in 0 .. 2}

\* The part of a forecast result that _create_alert reads.
AlertingResults ==
  [product_id : Products, alert_level : {"CRITICAL", "HIGH"},
   stockout_analysis : [days_until_stockout : {3, 10}],
   reorder_recommendation : [recommended_quantity : {1}]]

\* _create_alert called on a given alerts table.
CreateAlertCall ==
  /\ Ready
  /\ \E table \in AlertTables, forecast_result \in AlertingResults :
       ret' = [op |-> "create_alert", table |-> table,
               forecast_result |-> forecast_result,
               after |-> create_alert(table, forecast_result, "none")]
  /\ UNCHANGED <<modelFiles, models, model_metrics, trained, forecasts, alerts, batch, cache, now>>

\* evaluate_single_product called on a series of n points.
EvaluateCall ==
  /\ Ready
  /\ \E n \in 0 .. MaxEvalPoints, test_days \in {-1, 0, MinEvalTest, DefaultTestDays, MaxEvalPoints},
        fault \in {"none", "fit"} :
       ret' = [op |-> "evaluate_single_product", points |-> n,
               test_days_asked |-> test_days, fault |-> fault,
               evaluation |-> evaluate_single_product(1, n, test_days, 20, fault)]
  /\ UNCHANGED <<modelFiles, models, model_metrics, trained, forecasts, alerts, batch, cache, now>>

\* The kinds of alert rows the ranking is applied to: an unresolved alert of
\* each severity, of a severity outside the table, without severity, and a
\* resolved alert.
RowKinds == {"CRITICAL", "HIGH", "MEDIUM", "LOW", "INFO", "missing", "resolved"}

\* Row i of a table of n rows; the store returns the rows oldest first or
\* newest first.
RankedRow(kind, i, n, oldest_first) ==
  LET base == [product_id |-> i, message |-> i,
               created_at |-> IF oldest_first THEN i ELSE n + 1 - i,
               is_resolved |-> kind = "resolved"]
  IN IF kind = "missing" THEN base
     ELSE [f \in DOMAIN base \cup {"severity"} |->
             IF f = "severity" THEN (IF kind = "resolved" THEN "CRITICAL" ELSE kind)
             ELSE base[f]]

RankedTable(kinds, oldest_first) ==
  [i \in 1 .. Len(kinds) |-> RankedRow(kinds[i], i, Len(kinds), oldest_first)]

\* Every table of up to MaxAlertRows rows, and the tables of CRITICAL and
\* HIGH alerts just longer than the top-risk list.
RankedKinds ==
  UNION {[1 .. n -> RowKinds] : n \in 0 .. MaxAlertRows}
  \cup UNION {[1 .. n -> {"CRITICAL", "HIGH"}] : n \in TopRisksShown + 1 .. TopRisksShown + 2}

\* get_active_alerts and the top risks of get_dashboard_data on a given table.
ActiveAlertsCall ==
  /\ Ready
  /\ \E kinds \in RankedKinds, oldest_first \in BOOLEAN :
       ret' = [op |-> "get_active_alerts",
               rows |-> RankedTable(kinds, oldest_first),
               result |-> get_active_alerts(RankedTable(kinds, oldest_first)),
               top_risks |-> top_risks(RankedTable(kinds, oldest_first))]
  /\ UNCHANGED <<modelFiles, models, model_metrics, trained, forecasts, alerts, batch, cache, now>>

\* _validate_model called on the series of a training that went on.
ValidateCall ==
  /\ Ready
  /\ \E n \in MinTrainPoints .. MaxEvalPoints, fault \in {"none", "validate"} :
       ret' = [op |-> "validate_model", points |-> n, fault |-> fault,
               metrics |-> validate_model(n, fault)]
  /\ UNCHANGED <<modelFiles, models, model_metrics, trained, forecasts, alerts, batch, cache, now>>

\* Test segments of MinEvalTest to MaxTestPoints days, the least being the
\* shortest window either caller hands over (evaluate.py, line 98; the
\* tail of _validate_model on 10 points): days without sales and days of
\* 160 units against predictions of -1, 0, 1 and 137 units.  The error of
\* 137 against 160 is 14.375 percent in exact arithmetic and
\* 14.374999999999998 in doubles.
TestPairs == [actual : {0, 160}, predicted : {-1, 0, 1, 137}]
TestSegments == UNION {[1 .. n -> TestPairs] : n \in MinEvalTest .. MaxTestPoints}

\* The metrics of the holdout validation and of the evaluation on a given
\* test segment.
MetricsCall ==
  /\ Ready
  /\ \E pairs \in TestSegments :
       ret' = [op |-> "metrics", pairs |-> pairs,
               validation |-> validation_metrics(pairs),
               evaluation |-> detailed_metrics(pairs)]
  /\ UNCHANGED <<modelFiles, models, model_metrics, trained, forecasts, alerts, batch, cache, now>>

\* Sales rows on three calendar days, two of them on the same day, sold or
\* returned, in any order.
SalesRows == [date : {0, 1, 2, 4}, quantity_sold : {-1, 0, 2}]
SalesFrames == UNION {[1 .. n -> SalesRows] : n \in 0 .. MaxRecords}
FrameColumns == {{"date", "quantity_sold"}, {"date"}, {"quantity_sold"}}

PrepareCall ==
  /\ Ready
  /\ \E records \in SalesFrames, columns \in FrameColumns :
       ret' = [op |-> "prepare_prophet_data", records |-> records, columns |-> columns,
               result |-> prepare_prophet_data(records, columns)]
  /\ UNCHANGED <<modelFiles, models, model_metrics, trained, forecasts, alerts, batch, cache, now>>

\* Forecast rows counted in sixteenths of a unit: a demand of 0, 0.5 or 2.5
\* units a day, with no interval bounds or an interval of width 0, 0.125,
\* 0.375 or 1 around it, over one to three days.
ConfidenceUnit == 16
BoundedRows ==
  {[ds |-> 1, yhat |-> y, yhat_lower |-> y - h, yhat_upper |-> y + h] :
     y \in {0, 8, 40}, h \in {0, 1, 3, 8}}
UnboundedRows == {[ds |-> 1, yhat |-> y] : y \in {0, 8, 40}}
ConfidenceForecasts ==
  UNION {[1 .. n -> BoundedRows] \cup [1 .. n -> UnboundedRows] : n \in 1 .. MaxLen}

\* The confidence label of calculate_days_until_stockout on a given forecast.
ConfidenceCall ==
  /\ Ready
  /\ \E daily_forecast \in ConfidenceForecasts :
       ret' = [op |-> "confidence", daily_forecast |-> daily_forecast,
               unit |-> ConfidenceUnit,
               confidence |-> ConfidenceIn(daily_forecast, ConfidenceUnit)]
  /\ UNCHANGED <<modelFiles, models, model_metrics, trained, forecasts, alerts, batch, cache, now>>

\* ---------------------------------------------------------- holdout pairing
\* Prophet.make_future_dataframe(periods, freq='D'): the dates of the fitted
\* history followed by the periods calendar days after its last date.
make_future_dataframe(history_dates, periods) ==
  LET last == history_dates[Len(history_dates)]
  IN history_dates \o [i \in 1 .. Max(periods, 0) |-> last + i]

\* DataFrame.tail(k): the last k rows.
TailRows(rows, k) ==
  SubSeq(rows, Len(rows) - Min(k, Len(rows)) + 1, Len(rows))

\* The frame the throwaway model predicts on, fitted on the first
\* split_point rows of the series.
FutureFrame(dates, split_point, periods) ==
  make_future_dataframe(SubSeq(dates, 1, split_point), periods)

\* The held-out rows against forecast.tail(len(test_data)), row by row: the
\* two columns are taken as arrays and compared by position.
HoldoutPairs(dates, split_point, periods) ==
  LET test_dates == SubSeq(dates, split_point + 1, Len(dates))
      predicted == TailRows(FutureFrame(dates, split_point, periods), Len(test_dates))
  IN [i \in 1 .. Len(test_dates) |->
        [actual_date |-> test_dates[i], predicted_date |-> predicted[i]]]

\* _validate_model, lines 212-234: periods is the length of the test segment.
ValidationPairs(dates) ==
  HoldoutPairs(dates, SplitPoint(Len(dates)), Len(dates) - SplitPoint(Len(dates)))

\* evaluate_single_product, lines 94-110: periods is test_days.
EvaluationPairs(dates, test_days) ==
  HoldoutPairs(dates, EvalSplit(Len(dates), test_days).train_days, test_days)

\* Prepared series: the calendar days 0 .. span with at most two days
\* without sales left out (day 0 and the last day always have sales).
TrainSpan == 12
EvalSpan == 32
SeriesOn(span, a, b) == SortedDays((0 .. span) \ ({a, b} \ {0}))

\* The holdout of a training on a series with or without calendar gaps.
ValidationPairingCall ==
  /\ Ready
  /\ \E a \in 0 .. TrainSpan - 1, b \in 0 .. TrainSpan - 1 :
       LET dates == SeriesOn(TrainSpan, a, b)
       IN /\ Len(dates) >= MinTrainPoints
          /\ ret' = [op |-> "validation_pairing", dates |-> dates,
                     split_point |-> SplitPoint(Len(dates)),
                     pairs |-> ValidationPairs(dates)]
  /\ UNCHANGED <<modelFiles, models, model_metrics, trained, forecasts, alerts, batch, cache, now>>

\* An accepted evaluation on a series with or without calendar gaps.
EvaluationPairingCall ==
  /\ Ready
  /\ \E a \in 0 .. EvalSpan - 1, b \in 0 .. EvalSpan - 1, test_days \in {MinEvalTest, 7} :
       LET dates == SeriesOn(EvalSpan, a, b)
       IN /\ Len(dates) >= MinEvalPoints
          /\ ~SplitRejected(EvalSplit(Len(dates), test_days))
          /\ ret' = [op |-> "evaluation_pairing", dates |-> dates,
                     split_point |-> EvalSplit(Len(dates), test_days).train_days,
                     pairs |-> EvaluationPairs(dates, test_days)]
  /\ UNCHANGED <<modelFiles, models, model_metrics, trained, forecasts, alerts, batch, cache, now>>

NextPure ==
  \/ ValidationPairingCall
  \/ EvaluationPairingCall
  \/ StockoutCall
  \/ ConfidenceCall
  \/ PrepareCall
  \/ ValidateCall
  \/ MetricsCall
  \/ AlertLevelCall
  \/ ReorderCall
  \/ CreateAlertCall
  \/ EvaluateCall
  \/ ActiveAlertsCall
  \/ ReturnToCaller

SpecPure == Init /\ [][NextPure]_vars

\* ------------------------------------------------------------------ facade
\* OptiFlowEngine._CACHE_TTL_SECONDS
CACHE_TTL_SECONDS == 60 * 10

\* The clock is read in seconds and moves by half a time-to-live at a time.
MaxTime == 1500
HalfTtl == CACHE_TTL_SECONDS \div 2

\* evaluation_date / avg_mape of a report without a successful evaluation.
NoMean == -1

\* evaluate_all_products called at time called_at: products is what
\* get_product_list returns, after listing seconds; points[p] the length of
\* the series of p, mape[p] the error measured on its test window, in
\* hundredths of a percent as every MAPE, faults[p] the step of its
\* evaluation that raises.  evaluation_date is the clock read after the
\* listing (line 311); the mean is round(np.mean(mapes), 2) on the doubles
\* of the MAPEs.
evaluate_all_products(products, points, mape, faults, called_at, listing) ==
  LET individual_results ==
        [i \in 1 .. Len(products) |->
           evaluate_single_product(products[i], points[products[i]], DefaultTestDays,
                                   mape[products[i]], faults[products[i]])]
      Succeeded(e) == e.success
      successful_evaluations == SelectSeq(individual_results, Succeeded)
      mapes == [i \in 1 .. Len(successful_evaluations) |->
                  successful_evaluations[i].metrics.mape]
  IN [evaluation_date |-> called_at + listing,
      total_products |-> Len(products),
      individual_results |-> individual_results,
      summary_statistics |->
        IF Len(mapes) = 0 THEN [mape |-> [mean |-> NoMean]]
        ELSE [mape |-> [mean |-> round2(np_mean([i \in 1 .. Len(mapes) |-> Double(mapes[i], 100)]))]],
      successful_evaluations |-> Len(successful_evaluations),
      failed_evaluations |-> Len(products) - Len(successful_evaluations)]

\* Lines 224-233: what get_performance_summary keeps of the report.
PerfData(eval_report) ==
  [evaluation_date |-> eval_report.evaluation_date,
   avg_mape |-> eval_report.summary_statistics.mape.mean]

\* A cache test that still serves an entry aged exactly one time-to-live.
CacheHitAtTtl(use_cache, at) ==
  /\ use_cache
  /\ "data" \in DOMAIN cache
  /\ at - cache.timestamp <= CACHE_TTL_SECONDS

\* Lines 215-219: the entry is present and younger than the time-to-live
\* on the clock read by the test, at.
CacheHit(use_cache, at) ==
  /\ use_cache
  /\ "data" \in DOMAIN cache
  /\ at - cache.timestamp < CACHE_TTL_SECONDS

\* get_performance_summary called at time at: the data it returns, the
\* cache and the clock after it, and whether it ran the evaluation.  The
\* cache is tested on the clock of the call; on a miss the listing of the
\* products takes listing seconds, the report is dated, the evaluations
\* take dur seconds and the entry is stored on the clock read then
\* (line 236).
get_performance_summary(use_cache, products, points, mape, faults, at, listing, dur) ==
  IF CacheHit(use_cache, at)
  THEN [data |-> cache.data, cache |-> cache, now |-> at, evaluated |-> FALSE]
  ELSE LET perf_data == PerfData(evaluate_all_products(products, points, mape, faults,
                                                       at, listing))
       IN [data |-> perf_data,
           cache |-> [timestamp |-> at + listing + dur, data |-> perf_data],
           now |-> at + listing + dur, evaluated |-> TRUE]

\* created_at is set by the store at insertion: the rows of the alerts table
\* with their position as created_at.
WithCreatedAt(table) ==
  [i \in 1 .. Len(table) |->
     [f \in DOMAIN table[i] \cup {"created_at"} |->
        IF f = "created_at" THEN i ELSE table[i][f]]]

\* Lines 94-98: the number of unresolved alerts of each severity present.
alert_severity_counts(active_alerts) ==
  [severity \in {SeverityOf(active_alerts[i]) : i \in 1 .. Len(active_alerts)} |->
     Cardinality({i \in 1 .. Len(active_alerts) : SeverityOf(active_alerts[i]) = severity})]

\* Lines 81-83: models_trained is the length of get_product_list().
ModelsTrained(products) == Len(products)

\* Lines 77-129: the dashboard built from the stores and the summary.
Dashboard(total_products, products, perf_summary) ==
  [summary |-> [total_products |-> total_products,
                models_trained |-> ModelsTrained(products),
                total_predictions |-> Len(forecasts),
                active_alerts |-> Len(ActiveAlerts(alerts))],
   alerts_breakdown |-> alert_severity_counts(ActiveAlerts(alerts)),
   top_risks |-> top_risks(WithCreatedAt(alerts)),
   performance |-> perf_summary]

EvalPoints == {MinEvalPoints - 1, MinEvalPoints + 4}
\* Evaluations none of which raises.
NoEvaluationFaults == [p \in Products |-> "none"]
Mapes == {1000, 3025}
Durations == {0, HalfTtl}

\* The clock moves on between two calls.
Tick ==
  /\ Ready
  /\ now + HalfTtl <= MaxTime
  /\ now' = now + HalfTtl
  /\ UNCHANGED <<modelFiles, models, model_metrics, trained, forecasts, alerts, batch,
                 cache, ret>>

GetPerformanceSummary(durations) ==
  /\ Ready
  /\ \E use_cache \in BOOLEAN, products \in ProductLists, points \in [Products -> EvalPoints],
        mape \in [Products -> Mapes], listing \in durations, dur \in durations :
       LET summary == get_performance_summary(use_cache, products, points, mape,
                                              NoEvaluationFaults, now, listing, dur)
       IN /\ summary.now <= MaxTime
          /\ cache' = summary.cache
          /\ now' = summary.now
          /\ ret' = [op |-> "get_performance_summary", use_cache |-> use_cache,
                     called_at |-> now, tested_at |-> now, entry |-> cache,
                     data |-> summary.data, evaluated |-> summary.evaluated]
  /\ UNCHANGED <<modelFiles, models, model_metrics, trained, forecasts, alerts, batch>>

\* get_dashboard_data.  total_products: the active products, of which
\* get_product_list keeps those with sales; fault "store": a read of
\* products, forecasts or alerts raises.  The reads of lines 78-92 take
\* before seconds, and get_performance_summary is called after them
\* (line 118).
GetDashboardData(durations) ==
  /\ Ready
  /\ \E products \in ProductLists, points \in [Products -> EvalPoints],
        mape \in [Products -> Mapes], before \in durations, listing \in durations,
        dur \in durations, fault \in {"none", "store"} :
       \E total_products \in Len(products) .. Cardinality(Products) :
         LET summary == get_performance_summary(TRUE, products, points, mape,
                                                NoEvaluationFaults, now + before,
                                                listing, dur)
         IN IF fault = "store"
            THEN /\ ret' = [op |-> "get_dashboard_data", success |-> FALSE,
                            error |-> "exception"]
                 /\ UNCHANGED <<cache, now>>
            ELSE /\ summary.now <= MaxTime
                 /\ cache' = summary.cache
                 /\ now' = summary.now
                 /\ ret' = [op |-> "get_dashboard_data", success |-> TRUE,
                            products |-> products,
                            called_at |-> now, tested_at |-> now + before,
                            entry |-> cache,
                            evaluated |-> summary.evaluated,
                            dashboard |-> Dashboard(total_products, products, summary.data)]
  /\ UNCHANGED <<modelFiles, models, model_metrics, trained, forecasts, alerts, batch>>

\* get_product_detail.  found: the product row exists; fault "store": the
\* stock read of line 149 raises; the forecast is generated without saving
\* and the evaluation is run afresh.
get_product_detail(product_id, found, d, w, stock_data, points, mape, fault) ==
  LET forecast_result == ForecastResult(product_id, 0, d, w, stock_data, fault)
      evaluation_result == evaluate_single_product(product_id, points, DefaultTestDays,
                                                   mape, "none")
      call == [op |-> "get_product_detail", product_id |-> product_id, found |-> found,
               fault |-> fault]
  IN IF ~found \/ fault = "store"
     THEN /\ ret' = Returned(call, Failure("exception"))
          /\ UNCHANGED <<modelFiles, models, model_metrics, trained, forecasts, alerts>>
     ELSE /\ ForecastEffects(product_id, 0, FALSE, d, w, stock_data, fault)
          /\ ret' = IF ~forecast_result.success
                    THEN Returned(call, Failure(forecast_result.error))
                    ELSE Returned(call,
                           [success |-> TRUE,
                            product |-> [id |-> product_id,
                                         current_stock |-> CurrentStock(stock_data)],
                            forecast |->
                              [stockout_analysis |-> forecast_result.stockout_analysis,
                               reorder_recommendation |->
                                 forecast_result.reorder_recommendation,
                               alert_level |-> forecast_result.alert_level],
                            performance |->
                              [metrics |-> IF evaluation_result.success
                                           THEN evaluation_result.metrics
                                           ELSE [mape |-> NoMean]]])

GetProductDetail(readings) ==
  /\ Ready
  /\ \E p \in Products, found \in BOOLEAN, d \in Demands, w \in Widths,
        stock_data \in readings, points \in EvalPoints, mape \in Mapes,
        fault \in ComputeFaults \cup {"store"} :
       get_product_detail(p, found, d, w, stock_data, points, mape, fault)
  /\ UNCHANGED <<batch, cache, now>>

\* The facade over a store that training and saved forecasts fill, with an
\* evaluation that takes no time.
FacadeReadings == {Snapshot(50)}

NextFacade ==
  \/ TrainProductModel({MinTrainPoints}, {"none"})
  \/ GenerateProductForecast({0}, FacadeReadings)
  \/ GetPerformanceSummary({0})
  \/ GetDashboardData({0})
  \/ GetProductDetail(FacadeReadings)
  \/ ReturnToCaller

SpecFacade == Init /\ [][NextFacade]_vars

\* Every operation of the core on one store: training, single and batch
\* forecasts, evaluation and the facade reads.  A single forecast reads a
\* stock of 50 (ten days of cover), a batch reads no snapshot (stock 0).
CoreReadings == {Snapshot(50)}
CoreBatchReadings == {NoSnapshot}

NextCore ==
  \/ TrainProductModel({MinTrainPoints}, {"none"})
  \/ GenerateProductForecast({0}, CoreReadings)
  \/ BatchStart
  \/ BatchStep(CoreBatchReadings)
  \/ BatchEnd
  \/ GetDashboardData({0})
  \/ GetProductDetail(CoreReadings)
  \/ ReturnToCaller

SpecCore == Init /\ [][NextCore]_vars

\* The performance-summary cache against the clock.
NextCache ==
  \/ GetPerformanceSummary(Durations)
  \/ GetDashboardData(Durations)
  \/ Tick
  \/ ReturnToCaller

SpecCache == Init /\ [][NextCache]_vars

\* ------------------------------------------------------ exception boundary
\* The control flow of the public operations: which of their calls to the
\* store, the model store and the forecasting model sit inside a try, and
\* what the handler returns.  An outcome is a returned value or an
\* exception on its way up.  A fault names the call that raises whenever
\* the operation makes it.
Raised(error) == [raised |-> TRUE, error |-> error]
Completed(value) == [raised |-> FALSE, value |-> value]

\* A handler that lets the exception through.
ExceptReraise(body, handler) == body

\* try: body / except Exception: return handler
TryExcept(body, handler) == IF body.raised THEN Completed(handler) ELSE body

\* Calls in source order, none of them guarded: the call the fault names
\* raises, otherwise the statements reach their value.
Body(calls, fault, value) ==
  IF \E i \in 1 .. Len(calls) : calls[i] = fault THEN Raised(fault) ELSE Completed(value)

\* Two statements in a row: the second runs when the first has not raised.
Then(first, rest) == IF first.raised THEN first ELSE rest

\* A loop over calls that are not guarded by the loop: the first exception
\* leaves the loop, otherwise the loop reaches its value.
Propagate(outcomes, value) ==
  IF \E i \in 1 .. Len(outcomes) : outcomes[i].raised
  THEN outcomes[CHOOSE i \in 1 .. Len(outcomes) :
                  /\ outcomes[i].raised
                  /\ \A j \in 1 .. i - 1 : ~outcomes[j].raised]
  ELSE Completed(value)

\* The calls that can fail, by the operation that makes them: queries of
\* the store, reads and writes of the model files, fits and predictions of
\* the forecasting model.
ListCalls == {"products_select", "load_sales_data"}
TrainCalls == {"load_sales_data", "fit", "validation_fit", "validation_predict", "model_write"}
ForecastCalls == {"model_read", "predict", "load_stock_levels", "forecasts_delete", "forecasts_insert", "alerts_select", "alerts_insert"}
EvaluationCalls == {"load_sales_data", "fit", "predict"}
DashboardQueries == {"products_select", "forecasts_select", "alerts_select"}
SaveCalls == {"forecasts_delete", "forecasts_insert", "alerts_select", "alerts_insert"}
DetailCalls == {"products_select", "load_stock_levels"} \cup (ForecastCalls \ SaveCalls) \cup EvaluationCalls

\* The step of train_product_model a failing call belongs to.
TrainFault(fault) ==
  CASE fault = "load_sales_data" -> "load_sales"
    [] fault = "fit" -> "fit"
    [] fault \in {"validation_fit", "validation_predict"} -> "validate"
    [] fault = "model_write" -> "write"
    [] OTHER -> "none"

\* The step of generate_product_forecast a failing call belongs to.
ForecastFault(fault) ==
  CASE fault = "model_read" -> "load"
    [] fault \in {"predict", "load_stock_levels"} -> "compute"
    [] fault = "forecasts_delete" -> "delete"
    [] fault = "forecasts_insert" -> "insert"
    [] fault \in {"alerts_select", "alerts_insert"} -> "alert"
    [] OTHER -> "none"

\* The step of evaluate_single_product a failing call belongs to.
EvaluationFault(fault) ==
  CASE fault = "load_sales_data" -> "load_sales"
    [] fault \in {"fit", "predict"} -> "fit"
    [] OTHER -> "none"

\* get_product_list: the products that have sales, [] on any exception.
ProductListOutcome(products, fault) ==
  TryExcept(Body(<<"products_select", "load_sales_data">>, fault, products), <<>>)

\* _validate_model inside a training on n points: zero metrics on any
\* exception.
ValidationOutcome(n, fault) ==
  TryExcept(IF n - SplitPoint(n) < 2 THEN Completed("insufficient_test_data")
            ELSE Body(<<"validation_fit", "validation_predict">>, fault, "success"),
            "error")

\* train_product_model on a series of n points.
TrainOutcome(n, fault) ==
  TryExcept(
    Then(Body(<<"load_sales_data">>, fault, n),
         IF n = 0 THEN Completed(Failure("no_sales_data"))
         ELSE IF n < MinTrainPoints THEN Completed(Failure("insufficient_data"))
         ELSE Then(Body(<<"fit">>, fault, n),
                   Then(ValidationOutcome(n, fault),
                        Body(<<"model_write">>, fault, [success |-> TRUE])))),
    Failure("exception"))

\* load_model: None when the file is missing or cannot be read.
LoadModelOutcome(has_file, fault) ==
  TryExcept(IF has_file THEN Body(<<"model_read">>, fault, TRUE) ELSE Completed(FALSE),
            FALSE)

\* _create_alert: the insert is made when the select finds no unresolved
\* alert of the product; True either way, False on any exception.
CreateAlertOutcome(existing, fault) ==
  TryExcept(Then(Body(<<"alerts_select">>, fault, TRUE),
                 IF existing THEN Completed(TRUE)
                 ELSE Body(<<"alerts_insert">>, fault, TRUE)),
            FALSE)

\* _save_forecast_to_db: the value of _create_alert is not read; True after
\* it, False on any exception of the delete or the insert.
SaveOutcome(alerting, existing, fault) ==
  TryExcept(Then(Body(<<"forecasts_delete", "forecasts_insert">>, fault, TRUE),
                 IF alerting
                 THEN Then(CreateAlertOutcome(existing, fault), Completed(TRUE))
                 ELSE Completed(TRUE)),
            FALSE)

\* generate_product_forecast.  has_file: the artifact of the product
\* exists; alerting: the level found is CRITICAL or HIGH; existing: the
\* product has an unresolved alert.  The value of the save is not read.
ForecastOutcome(has_file, save_to_db, alerting, existing, fault) ==
  LET result == [success |-> TRUE]
      loaded == LoadModelOutcome(has_file, fault)
  IN TryExcept(
       Then(loaded,
            IF ~loaded.value THEN Completed(Failure("model_not_found"))
            ELSE Then(Body(<<"predict", "load_stock_levels">>, fault, result),
                      IF save_to_db
                      THEN Then(SaveOutcome(alerting, existing, fault), Completed(result))
                      ELSE Completed(result))),
       Failure("exception"))

\* evaluate_single_product on a series of n points.
EvaluationOutcome(n, test_days, fault) ==
  TryExcept(
    Then(Body(<<"load_sales_data">>, fault, n),
         IF n = 0 THEN Completed(Failure("no_sales_data"))
         ELSE IF n < MinEvalPoints THEN Completed(Failure("insufficient_data"))
         ELSE IF SplitRejected(EvalSplit(n, test_days))
         THEN Completed(Failure("split_impossible"))
         ELSE Body(<<"fit", "predict">>, fault, [success |-> TRUE])),
    Failure("exception"))

\* The evaluations take the MAPE of each product as given.
BoundaryMape == [p \in Products |-> 1000]

\* evaluate_all_products: no try of its own around the list and the loop.
\* eval_report: the report it builds when neither raises.
EvaluateAllOutcome(products, points, list_fault, faults, eval_report) ==
  LET listed == ProductListOutcome(products, list_fault)
      evaluations ==
        [i \in 1 .. Len(listed.value) |->
           EvaluationOutcome(points[listed.value[i]], DefaultTestDays,
                             faults[listed.value[i]])]
  IN Then(listed, Propagate(evaluations, eval_report))

\* get_performance_summary: a cache hit returns before the try; otherwise
\* the evaluation of all products runs inside it.  perf_data: what it
\* keeps of the report.
PerformanceOutcome(use_cache, products, points, list_fault, faults, perf_data) ==
  IF CacheHit(use_cache, now) THEN Completed(cache.data)
  ELSE TryExcept(Then(EvaluateAllOutcome(products, points, list_fault, faults, perf_data),
                      Completed(perf_data)),
                 Failure("exception"))

\* get_dashboard_data: the query of the products, the product list, the
\* queries of the forecasts and of the alerts and the performance summary,
\* all inside the try.
DashboardOutcome(total_products, products, points, fault, faults, perf_data) ==
  LET listed == ProductListOutcome(products, fault)
      perf_summary == PerformanceOutcome(TRUE, products, points, fault, faults, perf_data)
  IN TryExcept(
       Then(Body(<<"products_select">>, fault, TRUE),
            Then(listed,
                 Then(Body(<<"forecasts_select", "alerts_select">>, fault, TRUE),
                      Then(perf_summary,
                           Completed(Dashboard(total_products, listed.value,
                                               perf_summary.value)))))),
       Failure("exception"))

\* get_product_detail: the product row, the stock, a forecast that is not
\* saved and an evaluation; a missing product and a failed forecast are
\* raised inside the try.  detail: what it builds when it gets there.
DetailOutcome(found, has_file, n, fault, detail) ==
  LET forecast == ForecastOutcome(has_file, FALSE, FALSE, FALSE, fault)
  IN TryExcept(
       Then(Body(<<"products_select">>, fault, TRUE),
            IF ~found THEN Raised("ValueError")
            ELSE Then(Body(<<"load_stock_levels">>, fault, TRUE),
                      Then(forecast,
                           IF ~forecast.value.success THEN Raised("RuntimeError")
                           ELSE Then(EvaluationOutcome(n, DefaultTestDays, fault),
                                     Completed(detail))))),
       Failure("exception"))

\* get_active_alerts: one query inside the try.
ActiveAlertsOutcome(fault) ==
  TryExcept(Body(<<"alerts_select">>, fault, get_active_alerts(WithCreatedAt(alerts))),
            Failure("exception"))

\* The inputs of the calls: no product with sales or two; series with no
\* rows, too few rows and enough rows for a training or an evaluation, and
\* a series too short for the default test window; no stock snapshot
\* (CRITICAL) or, for the first product, a stock of 200 units (LOW).
BoundaryLists == {<<>>, <<1, 2>>}
BoundaryTrainPoints == {0, MinTrainPoints - 1, MinTrainPoints}
BoundaryEvalPoints == {0, MinEvalPoints - 1, MinEvalPoints, MinEvalPoints + 4}
BoundaryReadings(product_id) ==
  IF product_id = 1 THEN {NoSnapshot, Snapshot(200)} ELSE {NoSnapshot}
\* Inside a loop over the products: a training that fails or not, a
\* forecast whose prediction, row insert or alert insert fails or none.
LoopTrainCalls == {"fit", "model_write"}
LoopForecastCalls == {"predict", "forecasts_insert", "alerts_insert"}
LoopPoints == {[p \in Products |-> MinEvalPoints + 4],
               [p \in Products |-> IF p = 1 THEN MinEvalPoints + 4 ELSE MinEvalPoints - 1]}
LoopEvaluationFaults == {[p \in Products |-> "none"],
                         [p \in Products |-> IF p = 1 THEN "fit" ELSE "none"]}

\* An evaluation of all products: what is listed, the call of the listing
\* that fails and, for each product, its series and the call that fails.
EvaluationRuns ==
  [products : {<<1, 2>>}, list_fault : ListCalls, points : {[p \in Products |-> 0]},
   faults : {[p \in Products |-> "none"]}]
  \cup [products : {<<>>}, list_fault : {"none"}, points : {[p \in Products |-> 0]},
        faults : {[p \in Products |-> "none"]}]
  \cup [products : {<<1, 2>>}, list_fault : {"none"}, points : LoopPoints,
        faults : LoopEvaluationFaults]

\* The artifact of the product exists and can be read.
HasFile(product_id) == modelFiles[ModelPath(product_id)] # NoModel

\* The success flag and the error of a result.
Verdict(result) ==
  [success |-> result.success,
   error |-> IF "error" \in DOMAIN result THEN result.error ELSE ""]

\* What a public operation has come to: outcome by the control flow of
\* the source, result by the handler whose effects the call has had.
Called(call, outcome, result, fault, faults) ==
  ret' = [op |-> "public_operation", call |-> call, outcome |-> outcome,
          result |-> result, fault |-> fault, faults |-> faults]

NoResult == [kind |-> "none"]

CallTrainProductModel ==
  /\ Ready
  /\ \E p \in Products, n \in BoundaryTrainPoints, fault \in {"none"} \cup TrainCalls :
       /\ n < MinTrainPoints => fault \in {"none", "load_sales_data"}
       /\ TrainEffects(p, n, TrainFault(fault))
       /\ Called("train_product_model", TrainOutcome(n, fault),
                 TrainResult(n, TrainFault(fault)), fault, <<>>)
  /\ UNCHANGED <<forecasts, alerts, batch, cache, now>>

\* train_all_products, lines 266-272: the list and the counters; the loop
\* follows.
CallTrainAllProducts ==
  /\ Ready
  /\ \E products \in BoundaryLists, fault \in {"none"} \cup ListCalls :
       LET listed == ProductListOutcome(products, fault)
       IN IF listed.raised
          THEN /\ Called("train_all_products", listed, NoResult, fault, <<>>)
               /\ UNCHANGED batch
          ELSE /\ batch' = [running |-> TRUE, call |-> "train_all_products",
                            products |-> listed.value, todo |-> listed.value,
                            results |-> [total_products |-> Len(listed.value),
                                         successful |-> 0, failed |-> 0,
                                         details |-> <<>>],
                            fault |-> fault, faults |-> <<>>]
               /\ UNCHANGED ret
  /\ UNCHANGED <<modelFiles, models, model_metrics, trained, forecasts, alerts, cache, now>>

\* Lines 274-286: one iteration of the loop of train_all_products.
TrainAllIteration ==
  /\ batch.running
  /\ batch.call = "train_all_products"
  /\ batch.todo # <<>>
  /\ \E n \in {MinTrainPoints}, fault \in {"none"} \cup LoopTrainCalls :
       LET outcome == TrainOutcome(n, fault)
           result == TrainResult(n, TrainFault(fault))
       IN /\ TrainEffects(Head(batch.todo), n, TrainFault(fault))
          /\ IF outcome.raised
             THEN /\ Called("train_all_products", outcome, result, batch.fault,
                            Append(batch.faults, fault))
                  /\ batch' = NoBatch
             ELSE /\ batch' = [batch EXCEPT
                                 !.todo = Tail(@),
                                 !.results =
                                   [total_products |-> @.total_products,
                                    successful |-> @.successful
                                                   + (IF result.success THEN 1 ELSE 0),
                                    failed |-> @.failed
                                               + (IF result.success THEN 0 ELSE 1),
                                    details |-> Append(@.details, result)],
                                 !.faults = Append(@, fault)]
                  /\ UNCHANGED ret
  /\ UNCHANGED <<forecasts, alerts, cache, now>>

\* The control flow of a forecast of which the handler computes result.
ForecastFlow(product_id, save_to_db, fault, result) ==
  ForecastOutcome(HasFile(product_id), save_to_db,
                  result.success /\ result.alert_level \in {"CRITICAL", "HIGH"},
                  ExistingAlerts(alerts, product_id) # {}, fault)

ForecastCalled(product_id, save_to_db, fault, result) ==
  Called("generate_product_forecast", ForecastFlow(product_id, save_to_db, fault, result),
         Summary(result), fault, <<>>)

CallGenerateProductForecast ==
  /\ Ready
  /\ \E p \in Products, save_to_db \in BOOLEAN, d \in Demands, w \in Widths,
        fault \in {"none"} \cup ForecastCalls :
     \E stock_data \in BoundaryReadings(p) :
       /\ fault \in SaveCalls => save_to_db
       /\ ForecastEffects(p, 0, save_to_db, d, w, stock_data, ForecastFault(fault))
       /\ ForecastCalled(p, save_to_db, fault,
                         ForecastResult(p, 0, d, w, stock_data, ForecastFault(fault)))
  /\ UNCHANGED <<batch, cache, now>>

\* generate_all_forecasts, lines 319-326: the list and the counters; the
\* loop follows.
CallGenerateAllForecasts ==
  /\ Ready
  /\ \E products \in BoundaryLists, fault \in {"none"} \cup ListCalls :
       LET listed == ProductListOutcome(products, fault)
       IN IF listed.raised
          THEN /\ Called("generate_all_forecasts", listed, NoResult, fault, <<>>)
               /\ UNCHANGED batch
          ELSE /\ batch' = [running |-> TRUE, call |-> "generate_all_forecasts",
                            products |-> listed.value, todo |-> listed.value,
                            results |-> StartResults(listed.value),
                            fault |-> fault, faults |-> <<>>]
               /\ UNCHANGED ret
  /\ UNCHANGED <<modelFiles, models, model_metrics, trained, forecasts, alerts, cache, now>>

\* Lines 335-347: the counters take the result in, unless the call let an
\* exception through, which ends the loop.
ForecastCounted(product_id, fault, result, outcome) ==
  IF outcome.raised
  THEN /\ Called("generate_all_forecasts", outcome, Summary(result), batch.fault,
                 Append(batch.faults, fault))
       /\ batch' = NoBatch
  ELSE /\ batch' = [batch EXCEPT !.todo = Tail(@),
                                 !.results = CountResult(@, product_id, result),
                                 !.faults = Append(@, fault)]
       /\ UNCHANGED ret

ForecastIterated(product_id, fault, result) ==
  ForecastCounted(product_id, fault, result, ForecastFlow(product_id, TRUE, fault, result))

\* Lines 328-347: one iteration of the loop of generate_all_forecasts, on
\* a product without stock snapshot.
ForecastAllIteration ==
  /\ batch.running
  /\ batch.call = "generate_all_forecasts"
  /\ batch.todo # <<>>
  /\ \E d \in Demands, w \in Widths, fault \in {"none"} \cup LoopForecastCalls :
       /\ ForecastEffects(Head(batch.todo), 0, TRUE, d, w, NoSnapshot, ForecastFault(fault))
       /\ ForecastIterated(Head(batch.todo), fault,
                           ForecastResult(Head(batch.todo), 0, d, w, NoSnapshot,
                                          ForecastFault(fault)))
  /\ UNCHANGED <<cache, now>>

\* The loop over the products is through: the counters are returned.
LoopReturn ==
  /\ batch.running
  /\ batch.call \in {"train_all_products", "generate_all_forecasts"}
  /\ batch.todo = <<>>
  /\ Called(batch.call, Completed(batch.results), NoResult, batch.fault, batch.faults)
  /\ batch' = NoBatch
  /\ UNCHANGED <<modelFiles, models, model_metrics, trained, forecasts, alerts, cache, now>>

CallEvaluateSingleProduct ==
  /\ Ready
  /\ \E p \in Products, n \in BoundaryEvalPoints, fault \in {"none"} \cup EvaluationCalls :
       /\ n < MinEvalPoints => fault \in {"none", "load_sales_data"}
       /\ Called("evaluate_single_product", EvaluationOutcome(n, DefaultTestDays, fault),
              evaluate_single_product(p, n, DefaultTestDays, BoundaryMape[p],
                                      EvaluationFault(fault)),
              fault, <<>>)
  /\ UNCHANGED <<modelFiles, models, model_metrics, trained, forecasts, alerts, batch, cache, now>>

CallEvaluateAllProducts ==
  /\ Ready
  /\ \E run \in EvaluationRuns :
       Called("evaluate_all_products",
              EvaluateAllOutcome(
                run.products, run.points, run.list_fault, run.faults,
                evaluate_all_products(
                  ProductListOutcome(run.products, run.list_fault).value, run.points,
                  BoundaryMape, [p \in Products |-> EvaluationFault(run.faults[p])],
                  now, 0)),
              NoResult, run.list_fault, run.faults)
  /\ UNCHANGED <<modelFiles, models, model_metrics, trained, forecasts, alerts, batch, cache, now>>

\* The cache after a summary that the call has reached and that has not
\* raised: summary is what get_performance_summary computes and stores.
SummaryStored(call, reached, summary, outcome, fault, faults) ==
  /\ IF outcome.raised \/ ~reached THEN UNCHANGED <<cache, now>>
     ELSE cache' = summary.cache /\ now' = summary.now
  /\ Called(call, outcome, NoResult, fault, faults)

PerformanceCalled(use_cache, run, summary) ==
  SummaryStored("get_performance_summary", TRUE, summary,
                PerformanceOutcome(use_cache, run.products, run.points, run.list_fault,
                                   run.faults, summary.data),
                run.list_fault, run.faults)

\* get_performance_summary: a miss stores the entry it has computed.
CallGetPerformanceSummary ==
  /\ Ready
  /\ \E use_cache \in BOOLEAN, run \in EvaluationRuns :
       PerformanceCalled(
         use_cache, run,
         get_performance_summary(
           use_cache, ProductListOutcome(run.products, run.list_fault).value, run.points,
           BoundaryMape, [p \in Products |-> EvaluationFault(run.faults[p])], now, 0, 0))
  /\ UNCHANGED <<modelFiles, models, model_metrics, trained, forecasts, alerts, batch>>

DashboardCalled(fault, run, summary) ==
  SummaryStored("get_dashboard_data", fault \notin DashboardQueries, summary,
                DashboardOutcome(Cardinality(Products), run.products, run.points, fault,
                                 run.faults, summary.data),
                fault, run.faults)

\* get_dashboard_data: the summary, and with it the cache, is reached when
\* the three queries before it have not raised; the product list of the
\* dashboard and the one of the evaluation fail alike.
CallGetDashboardData ==
  /\ Ready
  /\ \E fault \in {"none", "load_sales_data"} \cup DashboardQueries,
        run \in {r \in EvaluationRuns : r.list_fault = "none"} :
       DashboardCalled(
         fault, run,
         get_performance_summary(
           TRUE, ProductListOutcome(run.products, fault).value, run.points,
           BoundaryMape, [p \in Products |-> EvaluationFault(run.faults[p])], now, 0, 0))
  /\ UNCHANGED <<modelFiles, models, model_metrics, trained, forecasts, alerts, batch>>

\* Lines 160-184: the detail built from the forecast and the evaluation.
DetailRecord(product_id, forecast_result, evaluation_result) ==
  [product |-> [id |-> product_id, current_stock |-> CurrentStock(NoSnapshot)],
   forecast |-> [stockout_analysis |-> forecast_result.stockout_analysis,
                 reorder_recommendation |-> forecast_result.reorder_recommendation,
                 alert_level |-> forecast_result.alert_level],
   performance |-> [metrics |-> IF evaluation_result.success
                                THEN evaluation_result.metrics
                                ELSE [mape |-> NoMean]]]

\* get_product_detail: the forecast, which loads the model into memory and
\* is not saved, is reached when the product is found and its stock read.
CallGetProductDetail ==
  /\ Ready
  /\ \E p \in Products, found \in BOOLEAN, d \in Demands, w \in Widths,
        n \in {MinEvalPoints - 1, MinEvalPoints + 4}, fault \in {"none"} \cup DetailCalls :
       /\ ~found => fault \in {"none", "products_select"}
       /\ IF found /\ fault \notin {"products_select", "load_stock_levels"}
          THEN ForecastEffects(p, 0, FALSE, d, w, NoSnapshot, ForecastFault(fault))
          ELSE UNCHANGED <<modelFiles, models, model_metrics, trained, forecasts, alerts>>
       /\ Called("get_product_detail",
                 DetailOutcome(
                   found, HasFile(p), n, fault,
                   DetailRecord(p, ForecastResult(p, 0, d, w, NoSnapshot, ForecastFault(fault)),
                                evaluate_single_product(p, n, DefaultTestDays, BoundaryMape[p],
                                                        EvaluationFault(fault)))),
                 NoResult, fault, <<>>)
  /\ UNCHANGED <<batch, cache, now>>

CallGetActiveAlerts ==
  /\ Ready
  /\ \E fault \in {"none", "alerts_select"} :
       Called("get_active_alerts", ActiveAlertsOutcome(fault), NoResult, fault, <<>>)
  /\ UNCHANGED <<modelFiles, models, model_metrics, trained, forecasts, alerts, batch, cache, now>>

NextBoundary ==
  \/ CallTrainProductModel
  \/ CallTrainAllProducts
  \/ TrainAllIteration
  \/ CallGenerateProductForecast
  \/ CallGenerateAllForecasts
  \/ ForecastAllIteration
  \/ LoopReturn
  \/ CallEvaluateSingleProduct
  \/ CallEvaluateAllProducts
  \/ CallGetPerformanceSummary
  \/ CallGetDashboardData
  \/ CallGetProductDetail
  \/ CallGetActiveAlerts
  \/ ReturnToCaller

SpecBoundary == Init /\ [][NextBoundary]_vars

\* ================================================================== claims
\* The rows of a product in a table, in table order.
RowsOf(table, product_id) ==
  LET Mine(r) == r.product_id = product_id IN SelectSeq(table, Mine)

Unresolved(product_id) ==
  {i \in 1 .. Len(alerts) :
     alerts[i].product_id = product_id /\ alerts[i].is_resolved = FALSE}

\* The step is a generate_product_forecast call made by a caller.
ForecastStep == ret = Idle /\ ret'.op = "generate_product_forecast"

TrainStep == ret = Idle /\ ret'.op = "train_product_model"

LoadStep == ret = Idle /\ ret'.op = "load_model"

\* C1: after any sequence of generate_product_forecast and
\* generate_all_forecasts calls the alerts table holds at most one alert with
\* is_resolved = false per product.
C1_OneUnresolvedAlert ==
  \A p \in Products : Cardinality(Unresolved(p)) <= 1

\* An alerting, saved forecast has returned for the product of the older of
\* two alerts: its raise found the alert of the product in place.
C1_Witness ==
  /\ Len(alerts) = 2
  /\ ret.op = "generate_product_forecast"
  /\ ret.success /\ ret.save_to_db /\ ret.fault = "none"
  /\ ret.alert_level \in {"CRITICAL", "HIGH"}
  /\ alerts[1].product_id = ret.product_id
  /\ alerts[2].product_id # ret.product_id

\* The call saved its run: no store call of it failed.
Persisted(r) == r.success /\ r.save_to_db /\ r.fault \notin {"delete", "insert"}

\* C2: a successful generate_product_forecast(save_to_db=True) leaves exactly
\* the horizon's number of rows for its product, whatever rows an earlier run
\* had left, and does not touch the rows of the other products.
C2_FullReplace ==
  [][(ForecastStep /\ Persisted(ret')) =>
       /\ Len(RowsOf(forecasts', ret'.product_id)) = ret'.days
       /\ \A q \in Products \ {ret'.product_id} :
            RowsOf(forecasts', q) = RowsOf(forecasts, q)]_vars

\* A 30-day run has replaced the 31 rows of an earlier run, the other
\* product holding rows of its own.
C2_Witness ==
  /\ ret.op = "generate_product_forecast"
  /\ Persisted(ret)
  /\ ret.rows_before = 31
  /\ ret.days = DefaultForecastDays
  /\ Len(RowsOf(forecasts, ret.product_id)) = DefaultForecastDays
  /\ Len(forecasts) > DefaultForecastDays

\* C3: whenever generate_product_forecast(save_to_db=True) returns, the rows
\* of its product are the previous run's rows or the new run's rows, never an
\* empty or partial set when a previous run existed.
C3_AtomicReplace ==
  [][(ForecastStep /\ ret'.save_to_db /\ RowsOf(forecasts, ret'.product_id) # <<>>) =>
       \/ RowsOf(forecasts', ret'.product_id) = RowsOf(forecasts, ret'.product_id)
       \/ /\ ret'.success
          /\ Len(RowsOf(forecasts', ret'.product_id)) = ret'.days]_vars

\* A saving call whose insert raised has returned: the 30 rows the product
\* had are gone and none has replaced them.
C3_Witness ==
  /\ ret.op = "generate_product_forecast"
  /\ ret.save_to_db /\ ret.fault = "insert"
  /\ ret.rows_before = DefaultForecastDays
  /\ RowsOf(forecasts, ret.product_id) = <<>>

\* C4: when the delete or the insert of the forecast rows fails, the result
\* of generate_product_forecast(save_to_db=True) has success = false.
C4_PersistFailureSurfaced ==
  (/\ ret.op = "generate_product_forecast"
   /\ ret.save_to_db
   /\ ret.fault \in {"delete", "insert"}) => ~ret.success

\* A saving call whose delete raised has returned success with its summary.
C4_Witness ==
  /\ ret.op = "generate_product_forecast"
  /\ ret.save_to_db /\ ret.fault = "delete"
  /\ ret.success
  /\ ret.alert_level = "HIGH"

\* C5: training a product whose prepared series has fewer than 10 points
\* fails (no sales data for an empty series, insufficient data otherwise) and
\* leaves every model artifact and the in-memory model and metrics maps as
\* they were.
C5_InsufficientData ==
  [][(TrainStep /\ ret'.points < MinTrainPoints) =>
       /\ ~ret'.success
       /\ ret'.fault = "none" =>
            ret'.error = (IF ret'.points = 0 THEN "no_sales_data" ELSE "insufficient_data")
       /\ UNCHANGED <<modelFiles, models, model_metrics>>]_vars

\* A 9-point training has failed on a product that keeps its earlier artifact.
C5_Witness ==
  /\ ret.op = "train_product_model"
  /\ ret.points = MinTrainPoints - 1
  /\ ret.fault = "none"
  /\ ret.error = "insufficient_data"
  /\ modelFiles[ret.product_id] # NoModel
  /\ models[ret.product_id] # NoModel

\* C6: load_model returns the model of the most recent successful training
\* of the product (None before any) when the read of the file does not
\* fail, never writes an artifact, and training one product never changes
\* the artifact of another.
C6_OneArtifactPerProduct ==
  [][/\ LoadStep =>
          /\ ret'.fault = "none" => ret'.model = trained[ret'.product_id]
          /\ trained[ret'.product_id] = NoModel => ret'.model = NoModel
          /\ UNCHANGED <<modelFiles, trained>>
     /\ TrainStep =>
          \A q \in Products \ {ret'.product_id} : modelFiles'[q] = modelFiles[q]]_vars

\* A product was trained, a later training of it failed while writing the
\* pickle, and a load whose read did not fail has returned None.
C6_Witness ==
  /\ ret.op = "load_model"
  /\ ret.fault = "none"
  /\ ret.model = NoModel
  /\ trained[ret.product_id] # NoModel
  /\ models[ret.product_id] = trained[ret.product_id]

\* C7: generate_product_forecast on a product without a persisted model
\* returns the model-not-found failure, trains nothing and leaves the
\* forecast rows, the alerts and the model artifacts as they were, whatever
\* the persist flag.
C7_ModelNotFound ==
  [][(ForecastStep /\ modelFiles[ret'.product_id] = NoModel) =>
       /\ ~ret'.success
       /\ ret'.error = "model_not_found"
       /\ UNCHANGED <<forecasts, alerts, modelFiles, models, model_metrics>>]_vars

\* The failure returned with persist on, the other product having a model
\* and saved rows.
C7_Witness ==
  /\ ret.op = "generate_product_forecast"
  /\ ret.save_to_db
  /\ ~ret.success
  /\ ret.error = "model_not_found"
  /\ modelFiles[ret.product_id] = NoModel
  /\ forecasts # <<>>

Levels == {"CRITICAL", "HIGH", "MEDIUM", "LOW"}

\* C8: the alert severity is a total function of (current stock, days until
\* stock-out): stock <= 0 gives CRITICAL for every day count, a product with
\* no stock snapshot counts as stock 0, otherwise days <= 7 gives CRITICAL,
\* <= 14 HIGH, <= 30 MEDIUM, else LOW; the result is always one of the four.
C8_SeverityTable ==
  ret.op = "calculate_alert_level" =>
    /\ ret.alert_level \in Levels
    /\ ret.stock_data.empty => ret.current_stock = 0
    /\ ret.current_stock <= 0 => ret.alert_level = "CRITICAL"
    /\ ret.current_stock > 0 =>
         /\ ret.days_until_stockout <= 7 => ret.alert_level = "CRITICAL"
         /\ (ret.days_until_stockout > 7 /\ ret.days_until_stockout <= 14)
              => ret.alert_level = "HIGH"
         /\ (ret.days_until_stockout > 14 /\ ret.days_until_stockout <= 30)
              => ret.alert_level = "MEDIUM"
         /\ ret.days_until_stockout > 30 => ret.alert_level = "LOW"

\* A product without a snapshot whose day count is beyond every threshold.
C8_Witness ==
  /\ ret.op = "calculate_alert_level"
  /\ ret.stock_data.empty
  /\ ret.days_until_stockout > 30
  /\ ret.alert_level = "CRITICAL"

RECURSIVE ClippedSum(_, _)
\* Sum of the first k point estimates, each clipped at 0.
ClippedSum(fc, k) == IF k = 0 THEN 0 ELSE ClippedSum(fc, k - 1) + Clip(fc[k].yhat)

\* The days on which the cumulated clipped demand has reached the stock.
StockoutDays(stock, fc) == {k \in 1 .. Len(fc) : ClippedSum(fc, k) >= stock}

LeastStockoutDay(stock, fc) ==
  IF StockoutDays(stock, fc) = {} THEN Len(fc)
  ELSE CHOOSE k \in StockoutDays(stock, fc) : \A j \in StockoutDays(stock, fc) : k <= j

\* C9: for a non-empty forecast calculate_days_until_stockout reports the
\* least k whose first k clipped point estimates sum to at least the stock,
\* and the horizon length when there is none; stock 50 against 5 units/day
\* over 30 days gives day 10 and severity HIGH.
C9_LeastDay ==
  (ret.op = "calculate_days_until_stockout" /\ ret.daily_forecast # <<>>) =>
    /\ ret.stockout_info.days_until_stockout
         = LeastStockoutDay(ret.current_stock, ret.daily_forecast)
    /\ (ret.current_stock = ScenarioStock /\ ret.daily_forecast = ScenarioForecast) =>
         /\ ret.stockout_info.days_until_stockout = 10
         /\ ret.alert_level = "HIGH"

C9_Witness ==
  /\ ret.op = "calculate_days_until_stockout"
  /\ ret.current_stock = ScenarioStock
  /\ ret.daily_forecast = ScenarioForecast
  /\ ret.stockout_info.days_until_stockout = 10

DaysFor(stock, fc) == calculate_days_until_stockout(stock, fc).days_until_stockout

\* fc with the point estimate of day i set to v.
WithEstimate(fc, i, v) == [fc EXCEPT ![i] = [fc[i] EXCEPT !.yhat = v]]

\* C10: for a non-empty forecast, more stock never gives an earlier
\* stock-out day, and neither does a lower point estimate on any single day.
C10_Monotone ==
  (ret.op = "calculate_days_until_stockout" /\ ret.daily_forecast # <<>>) =>
    /\ \A more \in PureStocks :
         more >= ret.current_stock =>
           DaysFor(more, ret.daily_forecast) >= ret.stockout_info.days_until_stockout
    /\ \A i \in 1 .. Len(ret.daily_forecast), v \in -1 .. MaxDemand :
         v <= ret.daily_forecast[i].yhat =>
           DaysFor(ret.current_stock, WithEstimate(ret.daily_forecast, i, v))
             >= ret.stockout_info.days_until_stockout

\* A call whose day count strictly grows with one more unit of stock and
\* with one unit less demand on the first day.
C10_Witness ==
  /\ ret.op = "calculate_days_until_stockout"
  /\ Len(ret.daily_forecast) = 2
  /\ ret.stockout_info.days_until_stockout = 1
  /\ ret.current_stock + 1 \in PureStocks
  /\ DaysFor(ret.current_stock + 1, ret.daily_forecast) = 2
  /\ ret.daily_forecast[1].yhat = 1
  /\ DaysFor(ret.current_stock, WithEstimate(ret.daily_forecast, 1, 0)) = 2

\* Sum of the point estimates of the first lead + safety days of the call.
PeriodDemand(call) ==
  SumField(call.forecast_df, "yhat",
           IF call.lead_time_days + call.safety_stock_days < Len(call.forecast_df)
           THEN call.lead_time_days + call.safety_stock_days
           ELSE Len(call.forecast_df))

\* C11: the recommended quantity is a whole number of units, never below
\* minimum_order_qty; for a non-empty forecast it is the larger of
\* minimum_order_qty and the least whole number of units covering the sum of
\* the point estimates of the first lead + safety days; called through
\* generate_product_forecast the period is 12 days.
C11_ReorderQuantity ==
  /\ ret.op = "calculate_reorder_quantity" =>
       LET q == ret.reorder_info.recommended_quantity
       IN /\ q \in Int
          /\ q >= ret.minimum_order_qty
          /\ ret.forecast_df # <<>> =>
               /\ q * ret.unit >= PeriodDemand(ret)
               /\ q > ret.minimum_order_qty => (q - 1) * ret.unit < PeriodDemand(ret)
  /\ ret.op = "reorder_recommendation" =>
       ret.reorder_info.recommended_quantity = Max(MinimumOrderQty, 12 * Clip(ret.d))

\* A call on halves whose period is shorter than the forecast and whose
\* period demand, 3/2, is rounded up to 2 units, above the minimum.
C11_Witness ==
  /\ ret.op = "calculate_reorder_quantity"
  /\ ret.unit = 2
  /\ Len(ret.forecast_df) > ret.lead_time_days + ret.safety_stock_days
  /\ PeriodDemand(ret) = 3
  /\ ret.minimum_order_qty = 1
  /\ ret.reorder_info.recommended_quantity = 2

\* A coverage one day under the exact quotient: 35 units against a mean
\* demand of 7/3 cover 14 days.
CoverageRoundedDown ==
  /\ ret.op = "calculate_reorder_quantity"
  /\ ret.unit = 1
  /\ ret.forecast_df = WithBounds(<<3, 2, 2>>, 0)
  /\ ret.reorder_info.recommended_quantity = 35
  /\ ret.reorder_info.covers_days = 14

\* The unresolved alerts of a product in a given alerts table.
UnresolvedIn(table, product_id) ==
  {i \in 1 .. Len(table) :
     table[i].product_id = product_id /\ table[i].is_resolved = FALSE}

\* The returned result is a success whose severity calls for an alert.
Alerting(r) == r.success /\ r.alert_level \in {"CRITICAL", "HIGH"}

\* C12 as stated: whenever generate_product_forecast returns success with
\* severity CRITICAL or HIGH, an unresolved alert of the product exists,
\* whatever the persist flag and the outcome of the forecast-row write.
C12_AlertAlwaysRaised ==
  (ret.op = "generate_product_forecast" /\ Alerting(ret)) =>
    Unresolved(ret.product_id) # {}

\* A saving call on a product without stock snapshot whose insert of the
\* forecast rows raised: it has returned success with severity CRITICAL and
\* the product has no unresolved alert.
C12_Witness ==
  /\ ret.op = "generate_product_forecast"
  /\ Alerting(ret) /\ ret.alert_level = "CRITICAL"
  /\ ret.save_to_db /\ ret.fault = "insert"
  /\ Unresolved(ret.product_id) = {}

\* Where the raise takes place: inside the save, after the rows are
\* written.  A successful CRITICAL or HIGH call with save_to_db and no
\* failing store call returns with an unresolved alert of the product in
\* place; every other one leaves the alerts table as it was.
RaisedWithinSave ==
  [][(ForecastStep /\ Alerting(ret')) =>
       IF ret'.save_to_db /\ ret'.fault = "none"
       THEN UnresolvedIn(alerts', ret'.product_id) # {}
       ELSE alerts' = alerts]_vars

\* C13: when the table holds an unresolved alert of the product,
\* _create_alert leaves the table as it is, whatever the new severity;
\* otherwise it appends exactly one alert of the product, unresolved, with
\* the severity of the run.
C13_IdempotentRaise ==
  ret.op = "create_alert" =>
    LET product_id == ret.forecast_result.product_id
        n == Len(ret.table)
    IN IF UnresolvedIn(ret.table, product_id) # {}
       THEN ret.after = ret.table
       ELSE /\ Len(ret.after) = n + 1
            /\ SubSeq(ret.after, 1, n) = ret.table
            /\ ret.after[n + 1].product_id = product_id
            /\ ret.after[n + 1].is_resolved = FALSE
            /\ ret.after[n + 1].severity = ret.forecast_result.alert_level

\* A CRITICAL run on a product whose unresolved alert is HIGH, next to a
\* resolved alert of the same product: the table is returned as it was.
C13_Witness ==
  /\ ret.op = "create_alert"
  /\ ret.forecast_result.alert_level = "CRITICAL"
  /\ Len(ret.table) = 2
  /\ \A i \in 1 .. 2 : ret.table[i].product_id = ret.forecast_result.product_id
  /\ ret.table[1].is_resolved
  /\ ~ret.table[2].is_resolved /\ ret.table[2].severity = "HIGH"
  /\ ret.after = ret.table

\* C20 as stated: a 30-point series evaluated with test_days = 14 is split
\* into 16 and 14 points and the evaluation succeeds.
C20_ThirtyPointsSucceed ==
  (/\ ret.op = "evaluate_single_product"
   /\ ret.points = 30 /\ ret.test_days_asked = 14 /\ ret.fault = "none") =>
     /\ ret.evaluation.success
     /\ ret.evaluation.data_summary.train_days = 16
     /\ ret.evaluation.data_summary.test_days = 14

\* C20 amended: with test_days = 14 the split of n >= 30 points is n - 14
\* and 14; the evaluation succeeds exactly when the train part has at least
\* 20 points, that is from 34 points on, and a 30-point series (16 and 14)
\* is refused as an impossible split.
C20_TrainFloor ==
  (/\ ret.op = "evaluate_single_product"
   /\ ret.points >= MinEvalPoints /\ ret.test_days_asked = 14 /\ ret.fault = "none") =>
     /\ ret.evaluation.success <=> ret.points >= 34
     /\ ret.evaluation.success =>
          /\ ret.evaluation.data_summary.train_days = ret.points - 14
          /\ ret.evaluation.data_summary.test_days = 14
     /\ ~ret.evaluation.success => ret.evaluation.error = "split_impossible"
     /\ ret.points = 30 => EvalSplit(30, 14) = [train_days |-> 16, test_days |-> 14]

\* The 30-point evaluation has been refused.
C20_Witness ==
  /\ ret.op = "evaluate_single_product"
  /\ ret.points = 30 /\ ret.test_days_asked = 14 /\ ret.fault = "none"
  /\ ~ret.evaluation.success
  /\ ret.evaluation.error = "split_impossible"

\* The rank the claim gives to the severity of a row.
RankOfRow(a) ==
  IF "severity" \notin DOMAIN a THEN 5
  ELSE IF a.severity = "CRITICAL" THEN 1
  ELSE IF a.severity = "HIGH" THEN 2
  ELSE IF a.severity = "MEDIUM" THEN 3
  ELSE IF a.severity = "LOW" THEN 4
  ELSE 5

\* C15: get_active_alerts returns exactly the unresolved rows, each once,
\* ordered by severity rank (CRITICAL 1, HIGH 2, MEDIUM 3, LOW 4, other or
\* missing 5) and, within a rank, by created_at ascending; top_risks are
\* the first min(5, n) rows of that order.
C15_ActiveAlertsOrder ==
  ret.op = "get_active_alerts" =>
    LET out == ret.result.alerts
        open == {i \in 1 .. Len(ret.rows) : ret.rows[i].is_resolved = FALSE}
    IN /\ Len(out) = Cardinality(open)
       /\ ret.result.total_active_alerts = Cardinality(open)
       /\ \A i \in open : \E j \in 1 .. Len(out) : out[j] = ret.rows[i]
       /\ \A j \in 1 .. Len(out) : \A k \in j + 1 .. Len(out) :
            \/ RankOfRow(out[j]) < RankOfRow(out[k])
            \/ /\ RankOfRow(out[j]) = RankOfRow(out[k])
               /\ out[j].created_at <= out[k].created_at
       /\ Len(ret.top_risks) = Min(5, Len(out))
       /\ \A j \in 1 .. Len(ret.top_risks) :
            /\ ret.top_risks[j].product_id = out[j].product_id
            /\ ret.top_risks[j].message = out[j].message

\* Seven unresolved alerts returned newest first by the store, of both
\* severities: the list has seven rows, the top risks five, and the first
\* row is the oldest CRITICAL alert although the store returned it last.
C15_Witness ==
  /\ ret.op = "get_active_alerts"
  /\ Len(ret.rows) = 7
  /\ ret.rows[1].created_at = 7
  /\ ret.rows[7].severity = "CRITICAL" /\ ret.rows[6].severity = "HIGH"
  /\ ret.rows[1].severity = "CRITICAL"
  /\ Len(ret.result.alerts) = 7
  /\ Len(ret.top_risks) = 5
  /\ ret.result.alerts[1] = ret.rows[7]

\* C16: generate_all_forecasts handles every product of the list once and
\* in order, whatever forecasts fail: on return successful + failed =
\* total_products = the length of the list and details has one entry per
\* product, in list order; and a started batch always returns.
C16_BatchCompletes ==
  /\ [](ret.op = "generate_all_forecasts" =>
          /\ ret.results.total_products = Len(ret.products)
          /\ ret.results.successful + ret.results.failed = ret.results.total_products
          /\ Len(ret.results.details) = Len(ret.products)
          /\ \A i \in 1 .. Len(ret.products) :
               ret.results.details[i].product_id = ret.products[i])
  /\ [](batch.running =>
          /\ Len(batch.results.details) + Len(batch.todo) = Len(batch.products)
          /\ batch.results.successful + batch.results.failed = Len(batch.results.details))
  /\ (batch.running ~> ret.op = "generate_all_forecasts")

\* A batch over both products has returned with the first product failed
\* and the second one successful.
C16_Witness ==
  /\ ret.op = "generate_all_forecasts"
  /\ Len(ret.products) = 2
  /\ ret.results.failed = 1 /\ ret.results.successful = 1
  /\ ~ret.results.details[1].success
  /\ ret.results.details[2].success
  /\ ret.results.details[2].product_id = ret.products[2]

\* The entry present before a step is younger than 600 seconds on the
\* clock read by the step's test of the cache.
FreshEntry == "data" \in DOMAIN cache /\ ret'.tested_at - cache.timestamp < 600

\* A call that asks for the cached summary: get_performance_summary with
\* use_cache=True, or the dashboard.
CachedSummaryStep ==
  /\ ret = Idle
  /\ \/ ret'.op = "get_performance_summary" /\ ret'.use_cache
     \/ ret'.op = "get_dashboard_data" /\ ret'.success

SummaryReturned ==
  IF ret'.op = "get_dashboard_data" THEN ret'.dashboard.performance ELSE ret'.data

\* C17: a call with use_cache=True returns the cached summary without
\* running the evaluation exactly when an entry younger than 600 seconds
\* exists; otherwise it runs the evaluation at once and stores its result
\* with the time of the store as the single entry.  A served entry was
\* stored less than 600 seconds before.  get_performance_summary tests the
\* cache on the clock of its call, the dashboard after its own reads; the
\* report of an evaluation is dated between the test and the store.
C17_CacheFreshness ==
  [][CachedSummaryStep =>
       /\ ret'.op = "get_performance_summary" => ret'.tested_at = now
       /\ ret'.tested_at >= now
       /\ ret'.evaluated <=> ~FreshEntry
       /\ FreshEntry =>
            /\ SummaryReturned = cache.data
            /\ ret'.tested_at - cache.timestamp < 600
            /\ cache' = cache
            /\ now' = ret'.tested_at
       /\ ~FreshEntry =>
            /\ SummaryReturned.evaluation_date >= ret'.tested_at
            /\ SummaryReturned.evaluation_date <= now'
            /\ cache' = [timestamp |-> now', data |-> SummaryReturned]]_vars

\* An entry aged exactly 600 seconds is not served: the evaluation runs.
C17_Witness ==
  /\ ret.op = "get_performance_summary"
  /\ ret.use_cache
  /\ "data" \in DOMAIN ret.entry
  /\ ret.called_at - ret.entry.timestamp = 600
  /\ ret.evaluated
  /\ cache.data = ret.data
  /\ cache.timestamp >= ret.called_at

\* A dashboard called on an entry aged 300 seconds whose own reads take
\* 300 seconds: the entry is 600 seconds old when tested, and the
\* evaluation runs.
StaleAfterReads ==
  /\ ret.op = "get_dashboard_data"
  /\ ret.success
  /\ "data" \in DOMAIN ret.entry
  /\ ret.called_at - ret.entry.timestamp = 300
  /\ ret.tested_at - ret.entry.timestamp = 600
  /\ ret.evaluated
  /\ cache.data = ret.dashboard.performance

\* A summary whose report is dated after the call and before the store:
\* the listing and the evaluations took 300 seconds each.
DatedAfterListing ==
  /\ ret.op = "get_performance_summary"
  /\ ret.evaluated
  /\ ret.data.evaluation_date = ret.called_at + 300
  /\ cache.timestamp = ret.called_at + 600

\* C18: the facade reads write nothing that is persisted.  A
\* get_dashboard_data call leaves the forecast rows, the alerts and the model
\* artifacts as they were (and the predictor too) and may change only the
\* cache entry; a get_product_detail call leaves the forecast rows, the
\* alerts, the model artifacts and the cache entry as they were.
C18_FacadeReadOnly ==
  [][/\ (ret = Idle /\ ret'.op = "get_dashboard_data") =>
          UNCHANGED <<forecasts, alerts, modelFiles, models, model_metrics, trained>>
     /\ (ret = Idle /\ ret'.op = "get_product_detail") =>
          UNCHANGED <<forecasts, alerts, modelFiles, trained, cache>>]_vars

\* A product detail with an alerting forecast, generated while another
\* product's rows are in the store, leaves no row and no alert of its own.
C18_Witness ==
  /\ ret.op = "get_product_detail"
  /\ ret.success
  /\ ret.forecast.alert_level \in {"CRITICAL", "HIGH"}
  /\ RowsOf(forecasts, ret.product_id) = <<>>
  /\ Unresolved(ret.product_id) = {}
  /\ Len(forecasts) > 0
  /\ Len(alerts) > 0

\* The products with a model file in models_dir.
Artifacts == {p \in Products : modelFiles[p] # NoModel}

\* C19: the models_trained figure of a dashboard is the number of products
\* that have a model artifact.
C19_ModelsTrainedCountsArtifacts ==
  (ret.op = "get_dashboard_data" /\ ret.success) =>
    ret.dashboard.summary.models_trained = Cardinality(Artifacts)

\* Before any training, a dashboard over two active products with sales
\* reports two trained models.
C19_Witness ==
  /\ ret.op = "get_dashboard_data"
  /\ ret.success
  /\ Artifacts = {}
  /\ \A p \in Products : trained[p] = NoModel
  /\ Len(ret.products) = 2
  /\ ret.dashboard.summary.models_trained = 2

\* C14: no operation of the core resolves or deletes an alert.  Every step
\* keeps the rows of the alerts table as they were, in place, and can only
\* add rows after them; no row is ever resolved; hence the unresolved alerts
\* of a product only grow in number and never exceed one.
C14_AlertsOnlyGrow ==
  /\ [][/\ Len(alerts') >= Len(alerts)
        /\ \A i \in 1 .. Len(alerts) : alerts'[i] = alerts[i]
        /\ \A p \in Products :
             Cardinality(UnresolvedIn(alerts, p)) <= Cardinality(UnresolvedIn(alerts', p))]_vars
  /\ [](\A i \in 1 .. Len(alerts) : alerts[i].is_resolved = FALSE)
  /\ [](\A p \in Products : Len(RowsOf(alerts, p)) <= 1)

\* A batch has returned two alerting forecasts over two products that each
\* had an alert already, one of them of another severity: the table still
\* holds the two earlier alerts and nothing else.
C14_Witness ==
  /\ ret.op = "generate_all_forecasts"
  /\ Len(ret.products) = 2
  /\ ret.results.alerts_created = 2
  /\ Len(alerts) = 2
  /\ \E i \in 1 .. 2, j \in 1 .. 2 :
       /\ alerts[j].product_id = ret.results.details[i].product_id
       /\ alerts[j].severity # ret.results.details[i].alert_level

\* C21: evaluate_single_product fails below 30 points, fails when
\* n - test_days < 20 or test_days < 3 (so also when test_days exceeds n or is
\* zero or negative), and on success the train segment is the first
\* n - test_days points and the test segment the last test_days points.
C21_SplitContract ==
  (ret.op = "evaluate_single_product" /\ ret.fault = "none") =>
    /\ ret.points < 30 => ~ret.evaluation.success
    /\ (ret.points - ret.test_days_asked < 20 \/ ret.test_days_asked < 3) =>
         ~ret.evaluation.success
    /\ ret.evaluation.success =>
         /\ ret.evaluation.data_summary.train_days = ret.points - ret.test_days_asked
         /\ ret.evaluation.data_summary.test_days = ret.test_days_asked
         /\ ret.evaluation.data_summary.train_days
              + ret.evaluation.data_summary.test_days = ret.points

\* An evaluation asked for more test days than the series has points has
\* succeeded, on segments that are not the ones asked for.
C21_Witness ==
  /\ ret.op = "evaluate_single_product"
  /\ ret.fault = "none"
  /\ ret.points = 30
  /\ ret.test_days_asked > ret.points
  /\ ret.evaluation.success
  /\ ret.evaluation.data_summary.train_days = 2 * ret.points - ret.test_days_asked
  /\ ret.evaluation.data_summary.test_days = ret.test_days_asked - ret.points

\* The test tail the statement gives to a series of n points: max(5, 20% of
\* n) below 15 points, n - floor(0.8 n) from 15 points on.
StatedTail(n) ==
  IF n < 15 THEN Max(5, (n * 2) \div 10) ELSE n - (n * 8) \div 10

\* C22: the holdout validation of a training on n >= 10 points tests on the
\* last StatedTail(n) points, and its metrics degrade to zero only when that
\* tail has fewer than 2 points.
C22_HoldoutTail ==
  (ret.op = "validate_model" /\ ret.points >= 10) =>
    /\ ret.metrics.validation = "success" =>
         ret.metrics.test_points = StatedTail(ret.points)
    /\ ret.metrics.validation # "success" =>
         (ret.metrics.validation = "insufficient_test_data" /\ StatedTail(ret.points) < 2)

\* A series of 10 points has been validated on a tail of 3 points.
C22_Witness ==
  /\ ret.op = "validate_model"
  /\ ret.fault = "none"
  /\ ret.points = 10
  /\ ret.metrics.validation = "success"
  /\ ret.metrics.test_points = 3

\* C22 amended: below 15 points the tail is min(5, n - floor(0.7 n)), that
\* is 3, 4, 4, 4, 5 points for n = 10 .. 14; from 15 points on it is
\* n - floor(0.8 n).  It never has fewer than 2 points from 10 points on, and
\* the metrics degrade to zero exactly when the validation's own fit or
\* prediction raises.
C22_TailAsComputed ==
  (ret.op = "validate_model" /\ ret.points >= 10) =>
    /\ ret.fault = "none" =>
         /\ ret.metrics.validation = "success"
         /\ ret.metrics.test_points >= 2
         /\ ret.points >= 15 => ret.metrics.test_points = StatedTail(ret.points)
         /\ ret.points < 15 =>
              ret.metrics.test_points = Min(5, ret.points - (ret.points * 7) \div 10)
         /\ ret.points \in 10 .. 14 =>
              ret.metrics.test_points = <<3, 4, 4, 4, 5>>[ret.points - 9]
    /\ ret.fault = "validate" =>
         /\ ret.metrics.validation = "error"
         /\ ret.metrics.test_points = 0

\* C23: every reported MAPE, of the holdout validation and of the
\* evaluation, lies between 0 and 999 percent.
C23_MapeCapped ==
  ret.op = "metrics" =>
    /\ ret.validation.mape >= 0 /\ ret.validation.mape <= 999 * 100
    /\ ret.evaluation.mape >= 0 /\ ret.evaluation.mape <= 999 * 100

\* Three test days without sales against predictions of one unit: the
\* validation reports 999 percent, the evaluation 1000 percent.
C23_Witness ==
  /\ ret.op = "metrics"
  /\ ret.pairs = [i \in 1 .. MinEvalTest |-> [actual |-> 0, predicted |-> 1]]
  /\ ret.validation.validation = "success"
  /\ ret.validation.mape = 999 * 100
  /\ ret.evaluation.mape = 1000 * 100

\* Three test days of 160 units against predictions of 137: the MAPE of
\* the doubles is 14.37 percent in both reports, under the 14.38 of the
\* exact quotient.
RoundedUnderTie ==
  /\ ret.op = "metrics"
  /\ ret.pairs = [i \in 1 .. MinEvalTest |-> [actual |-> 160, predicted |-> 137]]
  /\ ret.evaluation.mape = 1437
  /\ ret.validation.mape = 1437

\* The rows of a frame that fall on a calendar day.
RowsOn(records, day) == {i \in 1 .. Len(records) : records[i].date \div 2 = day}

RECURSIVE SumOver(_, _)
\* The sum of the quantities of a set of rows.
SumOver(records, rows) ==
  IF rows = {} THEN 0
  ELSE LET i == CHOOSE j \in rows : TRUE
       IN records[i].quantity_sold + SumOver(records, rows \ {i})

\* C25: prepare_prophet_data returns one point per distinct calendar date of
\* the input, valued max(0, sum of the date's quantities), in strictly
\* ascending date order; an empty input gives an empty series without
\* error, and a non-empty input without the date or the value column fails.
C25_OnePointPerDay ==
  ret.op = "prepare_prophet_data" =>
    LET records == ret.records
        series == ret.result.series
        complete == {"date", "quantity_sold"} \subseteq ret.columns
    IN /\ Len(records) = 0 => (~ret.result.raised /\ series = <<>>)
       /\ (Len(records) > 0 /\ ~complete) => ret.result.raised
       /\ (Len(records) > 0 /\ complete) =>
            /\ ~ret.result.raised
            /\ {series[i].ds : i \in 1 .. Len(series)}
                 = {records[i].date \div 2 : i \in 1 .. Len(records)}
            /\ \A i \in 1 .. Len(series) - 1 : series[i].ds < series[i + 1].ds
            /\ \A i \in 1 .. Len(series) :
                 LET total == SumOver(records, RowsOn(records, series[i].ds))
                 IN series[i].y = IF total > 0 THEN total ELSE 0

\* Three rows given latest first, a sale and a return on the same day: two
\* points, the earlier day first, the shared day valued at the net sum.
C25_Witness ==
  /\ ret.op = "prepare_prophet_data"
  /\ ret.records = <<[date |-> 4, quantity_sold |-> 2], [date |-> 1, quantity_sold |-> -1],
                     [date |-> 0, quantity_sold |-> 2]>>
  /\ ret.result.series = <<[ds |-> 0, y |-> 1], [ds |-> 2, y |-> 2]>>

\* The sums of a forecast with interval bounds: of the interval widths and
\* of the point estimates.
WidthSum(fc) == SumField(fc, "yhat_upper", Len(fc)) - SumField(fc, "yhat_lower", Len(fc))
DemandSum(fc) == SumField(fc, "yhat", Len(fc))

\* The label of a ratio width / base against the thresholds 0.2 and 0.5.
LabelOf(width, base) ==
  IF 5 * width < base THEN "high" ELSE IF 2 * width < base THEN "medium" ELSE "low"

\* C26 as stated: the label is that of mean width / mean point estimate for
\* every forecast with interval bounds (a positive mean is assumed for the
\* ratio to exist), and 'medium' without bounds.
C26_RatioOnMeanDemand ==
  ret.op = "confidence" =>
    LET fc == ret.daily_forecast
    IN IF "yhat_upper" \in DOMAIN fc[1]
       THEN DemandSum(fc) > 0 => ret.confidence = LabelOf(WidthSum(fc), DemandSum(fc))
       ELSE ret.confidence = "medium"

\* C26 amended: the ratio is mean width / max(mean point estimate, 1 unit),
\* computed in doubles: below 0.2 'high', below 0.5 'medium', else 'low'.
\* Under one unit a day the width is compared with 1, not with the mean.
\* A ratio that is exactly 0.2 is 'medium' under the floor and may be
\* computed just below 0.2 above it, and is then 'high'.
C26_RatioWithFloor ==
  ret.op = "confidence" =>
    LET fc == ret.daily_forecast
        one == Len(fc) * ret.unit
        base == IF DemandSum(fc) > one THEN DemandSum(fc) ELSE one
    IN IF "yhat_upper" \in DOMAIN fc[1]
       THEN IF 5 * WidthSum(fc) = base
            THEN /\ ret.confidence \in {"high", "medium"}
                 /\ DemandSum(fc) <= one => ret.confidence = "medium"
            ELSE ret.confidence = LabelOf(WidthSum(fc), base)
       ELSE ret.confidence = "medium"

\* A demand of 0.5 unit a day with an interval 0.375 wide: labelled 'medium'
\* (0.375 against 1), where 0.375 / 0.5 = 0.75 would be 'low'.
C26_Witness ==
  /\ ret.op = "confidence"
  /\ ret.daily_forecast = <<[ds |-> 1, yhat |-> 8, yhat_lower |-> 5, yhat_upper |-> 11]>>
  /\ ret.unit = 16
  /\ ret.confidence = "medium"

\* Three days with a mean width of 1/3 and a mean demand of 5/3: the
\* quotient of the two rounded means is 0.19999999999999998, labelled 'high'.
RoundedBelowFifth ==
  /\ ret.op = "confidence"
  /\ Len(ret.daily_forecast) = 3
  /\ "yhat_upper" \in DOMAIN ret.daily_forecast[1]
  /\ WidthSum(ret.daily_forecast) = 16
  /\ DemandSum(ret.daily_forecast) = 80
  /\ ret.confidence = "high"

\* C27: a successful forecast on a positive stock whose simulation finds no
\* stock-out within the horizon reports the alert level LOW.
C27_NoStockoutIsLow ==
  (/\ ret.op = "generate_product_forecast"
   /\ ret.success
   /\ ret.current_stock > 0
   /\ ret.stockout_analysis.stockout_date = 0) =>
     ret.alert_level = "LOW"

\* A forecast over the default 30 days on a stock that outlasts them has
\* reported MEDIUM.
C27_Witness ==
  /\ ret.op = "generate_product_forecast"
  /\ ret.success
  /\ ret.forecast_days = 0 /\ ret.days = 30
  /\ ret.current_stock = 200
  /\ ret.stockout_analysis.stockout_date = 0
  /\ ret.stockout_analysis.days_until_stockout = 30
  /\ ret.alert_level = "MEDIUM"

\* The score the claim pairs with an alert level.
ScoreOfLevel(alert_level) ==
  CASE alert_level = "CRITICAL" -> 90
    [] alert_level = "HIGH" -> 70
    [] alert_level = "MEDIUM" -> 40
    [] alert_level = "LOW" -> 10

\* C28: the rows a forecast run persists carry the rupture-risk score of
\* the run's alert level (CRITICAL 90, HIGH 70, MEDIUM 40, LOW 10); a stock
\* of zero or less gives one day to stock-out; the score 100 is never
\* persisted.
C28_ScoreFollowsLevel ==
  /\ [][(ForecastStep /\ ret'.success) =>
          /\ ret'.days >= 1
          /\ ret'.current_stock <= 0 => ret'.stockout_analysis.days_until_stockout = 1
          /\ (ret'.save_to_db /\ ret'.fault = "none") =>
               /\ Len(RowsOf(forecasts', ret'.product_id)) = ret'.days
               /\ \A i \in 1 .. Len(forecasts') :
                    forecasts'[i].product_id = ret'.product_id =>
                      forecasts'[i].rupture_risk = ScoreOfLevel(ret'.alert_level)]_vars
  /\ [](\A i \in 1 .. Len(forecasts) : forecasts[i].rupture_risk # 100)

\* A run on an empty stock has been saved: one day to stock-out, CRITICAL,
\* and thirty rows scored 90.
C28_Witness ==
  /\ ret.op = "generate_product_forecast"
  /\ ret.success /\ ret.save_to_db /\ ret.fault = "none"
  /\ ret.current_stock = 0
  /\ ret.stockout_analysis.days_until_stockout = 1
  /\ ret.alert_level = "CRITICAL"
  /\ Len(RowsOf(forecasts, ret.product_id)) = 30
  /\ \A i \in 1 .. Len(forecasts) :
       forecasts[i].product_id = ret.product_id => forecasts[i].rupture_risk = 90

\* C30: alerts_created, as counted by generate_all_forecasts, equals the
\* number of alert rows inserted during the batch, whatever unresolved
\* alerts the table held before: each iteration of the loop raises the
\* count by the number of rows it added to the alerts table.
C30_CountsInsertedAlerts ==
  [][(batch.running /\ batch'.running /\ batch'.todo # batch.todo) =>
       batch'.results.alerts_created - batch.results.alerts_created
         = Len(alerts') - Len(alerts)]_vars

\* A batch over one product has returned alerts_created = 1 while the only
\* alert row of the table is the product's earlier alert, of another
\* severity than the level the batch found: the batch inserted nothing.
C30_Witness ==
  /\ ret.op = "generate_all_forecasts"
  /\ Len(ret.products) = 1
  /\ ret.results.alerts_created = 1
  /\ ret.results.details[1].success
  /\ Len(alerts) = 1
  /\ alerts[1].product_id = ret.results.details[1].product_id
  /\ alerts[1].severity # ret.results.details[1].alert_level

\* C29: in the holdout validation of a training and in
\* evaluate_single_product every held-out actual is compared with the
\* prediction made for its own calendar date, also when the prepared series
\* has days without sales.
C29_SameDatePairs ==
  ret.op \in {"validation_pairing", "evaluation_pairing"} =>
    \A i \in 1 .. Len(ret.pairs) :
      ret.pairs[i].actual_date = ret.pairs[i].predicted_date

\* An evaluation on a series with one day without sales inside its test
\* segment: the actuals after the gap are compared with the predictions of
\* the day before.
C29_Witness ==
  /\ ret.op = "evaluation_pairing"
  /\ Len(ret.dates) = EvalSpan
  /\ Len(ret.pairs) = 7
  /\ ret.pairs[1].actual_date = ret.pairs[1].predicted_date
  /\ ret.pairs[7].actual_date = EvalSpan
  /\ ret.pairs[7].predicted_date = EvalSpan - 1

\* On a series without gaps the pairs are on the same dates.
GaplessPairsAgree ==
  (/\ ret.op \in {"validation_pairing", "evaluation_pairing"}
   /\ Len(ret.dates) = ret.dates[Len(ret.dates)] + 1) =>
    \A i \in 1 .. Len(ret.pairs) :
      ret.pairs[i].actual_date = ret.pairs[i].predicted_date

PublicOperations == {"train_product_model", "train_all_products", "generate_product_forecast", "generate_all_forecasts", "evaluate_single_product", "evaluate_all_products", "get_performance_summary", "get_dashboard_data", "get_product_detail", "get_active_alerts"}
SingleOperations == {"train_product_model", "generate_product_forecast", "evaluate_single_product"}
BatchOperations == {"train_all_products", "generate_all_forecasts"}
FacadeReads == {"get_performance_summary", "get_dashboard_data", "get_product_detail", "get_active_alerts"}

\* C24: whatever call to the store, the model store or the forecasting
\* model fails, every public operation returns a value and lets no
\* exception through: a result with a success flag for the operations on
\* one product, a report whose successes and failures add up to the
\* products listed for the operations over all products, and for the
\* facade reads either the data or a failure with an error.
C24_NoExceptionEscapes ==
  ret.op = "public_operation" =>
    /\ ret.call \in PublicOperations
    /\ ~ret.outcome.raised
    /\ ret.call \in SingleOperations => ret.outcome.value.success \in BOOLEAN
    /\ ret.call \in BatchOperations =>
         /\ ret.outcome.value.successful + ret.outcome.value.failed
              = ret.outcome.value.total_products
         /\ ret.outcome.value.successful >= 0
         /\ ret.outcome.value.failed >= 0
    /\ ret.call = "evaluate_all_products" =>
         /\ ret.outcome.value.successful_evaluations
              + ret.outcome.value.failed_evaluations = ret.outcome.value.total_products
         /\ ret.outcome.value.successful_evaluations >= 0
         /\ ret.outcome.value.failed_evaluations >= 0
    /\ ret.call \in FacadeReads =>
         ("success" \in DOMAIN ret.outcome.value =>
            /\ ~ret.outcome.value.success
            /\ "error" \in DOMAIN ret.outcome.value)

\* generate_all_forecasts, which has no try of its own, has returned a
\* report over two products: the prediction raised for the first, which
\* has no rows, and the insert of the alert raised for the second, whose
\* rows are saved without an alert.
C24_Witness ==
  /\ ret.op = "public_operation"
  /\ ret.call = "generate_all_forecasts"
  /\ ret.faults = <<"predict", "alerts_insert">>
  /\ ~ret.outcome.raised
  /\ ret.outcome.value.total_products = 2
  /\ ret.outcome.value.failed = 1
  /\ ret.outcome.value.successful = 1
  /\ RowsOf(forecasts, 1) = <<>>
  /\ RowsOf(forecasts, 2) # <<>>
  /\ Unresolved(2) = {}

\* The control flow agrees with the handlers whose effects the calls have:
\* an operation on one product returns the success flag and the error its
\* handler computes, and a facade read that got through returns what the
\* handler has stored or built.
BoundaryAgrees ==
  ret.op = "public_operation" =>
    /\ ret.call \in SingleOperations =>
         Verdict(ret.outcome.value) = Verdict(ret.result)
    /\ (ret.call = "get_performance_summary"
         /\ "success" \notin DOMAIN ret.outcome.value) =>
         ret.outcome.value = cache.data

\* A training whose model file cannot be written has failed and left no
\* artifact; a detail read has loaded the model into memory.
BoundaryActs ==
  /\ ret.op = "public_operation"
  /\ ret.call = "get_product_detail"
  /\ "product" \in DOMAIN ret.outcome.value
  /\ models[ret.outcome.value.product.id] # NoModel

====
